---- MODULE Spec2Model ----
(***************************************************************************)
(* A model of the two stateful parts of the repository:                    *)
(*   - ContinuousKline.generate_continuous                                 *)
(*       (src/src/data/merge/exchange/continuous_kline.py), and            *)
(*   - the signal matching scripts src/src/match/match_signals.py and      *)
(*       src/src/match/match_major_with_signal.py.                         *)
(* Dates are proleptic Gregorian ordinals (datetime.toordinal).  Contract  *)
(* symbols are sequences of one-character strings, so that the regular     *)
(* expression of the source can be evaluated on them.  Prices are exact    *)
(* rationals [n, d] standing for the floats of the source.                 *)
(***************************************************************************)
EXTENDS Integers, Sequences, FiniteSets, TLC

VARIABLES
    \* ---- generate_continuous ----
    df,                 \* the product table: a set of bar rows
    order,              \* contract symbols in order of first appearance in df
    roll_strategy, adjust_method, contract_months, dominant_days, rollover_days,
    contracts,          \* the sorted, filtered contract list
    i,                  \* 1-based position of the loop in contracts
    continuous_df,      \* the rows appended so far, in append order
    has_columns,        \* continuous_df has been assigned from a contract frame
    adjustment_factor, adjustment_ratio,
    rollover,           \* the rollover_date computed in each iteration so far
    kpc,                \* "load", "start", "loop", "done", "returned", "error", "reported"
    result,             \* the returned frame (sorted, columns renamed)
    segment,            \* per iteration so far: the overlap date and the adjustment applied
    day_files,          \* the product's day files: their header and their rows in file order
    merged_file,        \* merged/<product>.csv: whether it exists, its header and lines
    df_columns,         \* the column names of the product table
    returned,           \* what generate_continuous returned: "none", "series", "table"
    saved,              \* the continuous file has been written
    report,             \* what main printed: "none", "success", "error"
    run,                \* 1 in the first run of main, 2 in the second
    variant,            \* how the input of the second run differs: "none", "reload", "reduced"
    first,              \* the outcome of the first run
    \* ---- match_signals / match_major_with_signal ----
    script,             \* which of the two scripts runs
    signals_df,         \* strategy_result.csv
    main_contracts_df,  \* all_majors.csv
    open_df,            \* the merged frame (matched_df in match_major_with_signal)
    trading_days,       \* the sorted distinct dates of the majors table
    daily_pnl_records,  \* the ledger records appended so far
    record_row,         \* for each ledger record, the open_df row it was made for
    j,                  \* 1-based position of the ledger loop in open_df
    mpc,                \* "start", "opened", "closed", "ledger", "done", "raised", "idle"
    out_matched,        \* the matched-signals file as written
    out_daily,          \* the daily PnL file as written
    \* ---- select_major ----
    sm_df,              \* the product's rows as read and sorted by date: a sequence
    sm_i,               \* 0-based position of the loop in the distinct dates
    current_major_contract,
    major_contracts,    \* the rows appended so far, one per date
    spc                 \* "loop", "saved", "failed", "idle"

kvars == <<df, order, roll_strategy, adjust_method, contract_months, dominant_days,
           rollover_days, contracts, i, continuous_df, has_columns,
           adjustment_factor, adjustment_ratio, rollover, kpc, result,
           segment, day_files, merged_file, df_columns, returned, saved, report,
           run, variant, first>>

\* the state main and the loader add to that of generate_continuous
xvars == <<day_files, merged_file, df_columns, returned, saved, report, run, variant, first>>

mvars == <<script, signals_df, main_contracts_df, open_df, trading_days,
           daily_pnl_records, record_row, j, mpc, out_matched, out_daily>>

svars == <<sm_df, sm_i, current_major_contract, major_contracts, spc>>

vars == <<kvars, mvars, svars>>

----------------------------------------------------------------------------
(* Bounds of the model *)

\* number of sample trading dates of the product table
NumDates == 3
\* largest number of contracts in a product table
MaxContracts == 3
\* volumes and open interests range over 1..MaxVol
MaxVol == 2
\* largest number of bars in a product table
MaxBars == 4
\* number of calendar days the majors table spans
MaxDay == 12
\* largest number of rows of the signals file
MaxSignals == 2
\* the signals are dated on the first MaxSignalDay days
MaxSignalDay == 3

----------------------------------------------------------------------------
(* Constants of the program *)

\* get_close_date: the number of sessions a position is held
HoldSessions == 10
\* match_major_with_signal: pd.Timedelta(days=10)
HoldDays == 10
\* trade_amount of the cross-sectional strategy, the amount of every signal
TradeAmount == 100000

----------------------------------------------------------------------------
(* Generic helpers *)

Min(S) == CHOOSE x \in S : \A y \in S : x <= y
Max(S) == CHOOSE x \in S : \A y \in S : y <= x

Range(s) == {s[k] : k \in DOMAIN s}

RECURSIVE Gcd(_, _)
Gcd(a, b) == IF b = 0 THEN a ELSE Gcd(b, a % b)

Abs(x) == IF x < 0 THEN -x ELSE x

\* exact rationals standing for Python floats
Rat(n, d) ==
    LET g == Gcd(Abs(n), Abs(d))
        s == IF d < 0 THEN -1 ELSE 1
    IN  [n |-> s * (n \div g), d |-> s * (d \div g)]
RInt(x) == [n |-> x, d |-> 1]
RAdd(a, b) == Rat(a.n * b.d + b.n * a.d, a.d * b.d)
RSub(a, b) == Rat(a.n * b.d - b.n * a.d, a.d * b.d)
RMul(a, b) == Rat(a.n * b.n, a.d * b.d)
RDiv(a, b) == Rat(a.n * b.d, a.d * b.n)
RLess(a, b) == a.n * b.d < b.n * a.d

----------------------------------------------------------------------------
(* Dates: datetime(y, m, d).toordinal() *)

IsLeap(y) == (y % 4 = 0) /\ ((y % 100 # 0) \/ (y % 400 = 0))

DaysInMonth(y, m) ==
    IF m = 2 THEN (IF IsLeap(y) THEN 29 ELSE 28)
    ELSE IF m \in {4, 6, 9, 11} THEN 30 ELSE 31

RECURSIVE DaysBeforeMonth(_, _)
DaysBeforeMonth(y, m) ==
    IF m <= 1 THEN 0 ELSE DaysBeforeMonth(y, m - 1) + DaysInMonth(y, m - 1)

DaysBeforeYear(y) ==
    LET p == y - 1 IN p * 365 + (p \div 4) - (p \div 100) + (p \div 400)

Ordinal(y, m, d) == DaysBeforeYear(y) + DaysBeforeMonth(y, m) + d

\* Python None where a date is expected
NoDate == 0

\* _get_month_end: the day before the first day of the following month
GetMonthEnd(year, month) ==
    IF month = 12 THEN Ordinal(year + 1, 1, 1) - 1
    ELSE Ordinal(year, month + 1, 1) - 1

\* datetime() accepts the arguments _get_month_end passes
MonthEndValid(year, month) ==
    /\ month \in 0..12
    /\ year \in 1..9998

----------------------------------------------------------------------------
(* Contract symbols and the regular expression ([A-Za-z]+)(\d{2,4})(\d{2})? *)

Letters == {"X", "Y", "x", "y"}
Digits == {"0", "1", "2", "3", "4", "5", "6", "7", "8", "9"}

DigitVal(ch) ==
    CASE ch = "0" -> 0 [] ch = "1" -> 1 [] ch = "2" -> 2 [] ch = "3" -> 3
      [] ch = "4" -> 4 [] ch = "5" -> 5 [] ch = "6" -> 6 [] ch = "7" -> 7
      [] ch = "8" -> 8 [] ch = "9" -> 9

\* int() of a non-empty digit string
RECURSIVE ToInt(_)
ToInt(s) ==
    IF Len(s) = 0 THEN 0
    ELSE 10 * ToInt(SubSeq(s, 1, Len(s) - 1)) + DigitVal(s[Len(s)])

\* number of consecutive characters of class C in s from position p on
RECURSIVE RunLen(_, _, _)
RunLen(s, p, C) ==
    IF p > Len(s) \/ s[p] \notin C THEN 0 ELSE 1 + RunLen(s, p + 1, C)

\* the match can start at p: a letter run from p directly followed by two digits
MatchesAt(s, p) ==
    /\ p \in DOMAIN s
    /\ s[p] \in Letters
    /\ RunLen(s, p + RunLen(s, p, Letters), Digits) >= 2

\* re.search: the leftmost match; \d{2,4} is greedy, (\d{2})? takes two more
\* digits only when two are left.  month = <<>> stands for an absent group.
ContractMatch(s) ==
    LET starts == {p \in DOMAIN s : MatchesAt(s, p)}
    IN  IF starts = {} THEN [found |-> FALSE, year |-> <<>>, month |-> <<>>, has_month |-> FALSE]
        ELSE LET p == Min(starts)
                 q == p + RunLen(s, p, Letters)
                 k == RunLen(s, q, Digits)
                 ylen == IF k < 4 THEN k ELSE 4
             IN  [found |-> TRUE,
                  year |-> SubSeq(s, q, q + ylen - 1),
                  has_month |-> k >= 6,
                  month |-> IF k >= 6 THEN SubSeq(s, q + 4, q + 5) ELSE <<>>]

\* the (year, month) strings after the "YYMM" split and the "20" prefix
YearMonth(s) ==
    LET m == ContractMatch(s)
        y1 == IF m.has_month THEN m.year ELSE SubSeq(m.year, 1, 2)
        mo == IF m.has_month THEN m.month ELSE SubSeq(m.year, 3, Len(m.year))
        y2 == IF Len(y1) = 2 THEN <<"2", "0">> \o y1 ELSE y1
    IN  [year |-> y2, month |-> mo]

\* extract_date: the sort key of a contract
extract_dateZeros(contract) ==
    IF ContractMatch(contract).found
    THEN YearMonth(contract).year \o YearMonth(contract).month
    ELSE <<"0", "0", "0", "0", "0", "0">>
extract_date(contract) ==
    IF ContractMatch(contract).found
    THEN YearMonth(contract).year \o YearMonth(contract).month
    ELSE <<"9", "9", "9", "9", "9", "9">>

\* Python's < on strings of digits
RECURSIVE StrLess(_, _)
StrLess(a, b) ==
    IF Len(b) = 0 THEN FALSE
    ELSE IF Len(a) = 0 THEN TRUE
    ELSE IF a[1] # b[1] THEN DigitVal(a[1]) < DigitVal(b[1])
    ELSE StrLess(Tail(a), Tail(b))

\* list.sort(key=extract_date): a stable sort (insertion from the left)
RECURSIVE InsertByKey(_, _)
InsertByKey(sorted, c) ==
    IF Len(sorted) = 0 THEN <<c>>
    ELSE IF StrLess(extract_date(c), extract_date(sorted[Len(sorted)]))
         THEN InsertByKey(SubSeq(sorted, 1, Len(sorted) - 1), c) \o <<sorted[Len(sorted)]>>
         ELSE sorted \o <<c>>

RECURSIVE SortContracts(_)
SortContracts(cs) ==
    IF Len(cs) = 0 THEN <<>>
    ELSE InsertByKey(SortContracts(SubSeq(cs, 1, Len(cs) - 1)), cs[Len(cs)])

\* _identify_contracts: the unique contracts, sorted by expiry key
IdentifyContracts(ord) == SortContracts(ord)

\* extract_month of the contract_months filter
extract_month(contract) ==
    IF ContractMatch(contract).found THEN ToInt(YearMonth(contract).month) ELSE 0

\* int(month) raises on an empty month string
MonthParses(contract) ==
    ContractMatch(contract).found => Len(YearMonth(contract).month) > 0

\* _extract_expiry_date
ExtractExpiryDate(contract) ==
    IF ContractMatch(contract).found
    THEN GetMonthEnd(ToInt(YearMonth(contract).year), ToInt(YearMonth(contract).month))
    ELSE NoDate

\* the month end the "fixed" strategy computes
FixedMonthEnd(contract) == ExtractExpiryDate(contract)

----------------------------------------------------------------------------
(* The product table *)

\* the sample trading dates: 2021-01-15, 2021-01-25, 2021-02-04, ...
DateOf(k) == Ordinal(2021, 1, 5) + 10 * k
Dates == {DateOf(k) : k \in 1..NumDates}

\* the contracts X2101, X2102, ...
SymbolOf(m) == <<"X", "2", "1", "0">> \o <<CHOOSE ch \in Digits : DigitVal(ch) = m>>
\* the sample dates on which the contract of expiry month m can have a bar
Window(m) == {k \in 1..NumDates : m - 1 <= k /\ k <= m + 1}
\* the sample price level of the contract of expiry month m
Level(m) == 10 + 2 * (m \div 2)

\* a bar row of the table; liq is its volume
Bar(m, k, liq) ==
    [date |-> DateOf(k), contract_code |-> SymbolOf(m),
     open |-> Level(m) + k - 1, high |-> Level(m) + k + 2,
     low |-> Level(m) + k - 3, close |-> Level(m) + k,
     volume |-> liq, open_interest |-> MaxVol + 1 - liq]

\* the bar of a day without a trade: the exchange file carries zero prices
Untraded(b) == [b EXCEPT !.open = 0, !.high = 0, !.low = 0, !.close = 0]

Cells(S) == {c \in S \X (1..NumDates) : c[2] \in Window(c[1])}

\* the table with the bars of the cells of positive liq; zd is the sample date
\* without a trade (0: none)
Table(S, liq, zd) ==
    {IF c[2] = zd THEN Untraded(Bar(c[1], c[2], liq[c])) ELSE Bar(c[1], c[2], liq[c]) :
        c \in {x \in Cells(S) : liq[x] > 0}}

RECURSIVE SetToSeq(_)
SetToSeq(S) == IF S = {} THEN <<>> ELSE LET x == Min(S) IN <<x>> \o SetToSeq(S \ {x})

Reverse(s) == [k \in 1..Len(s) |-> s[Len(s) + 1 - k]]

RollStrategies == {"volume", "oi", "time", "fixed"}
AdjustMethods == {"none", "difference", "ratio", "backward", "forward"}
\* the day counts tried for dominant_days and rollover_days
DayCounts == {0, 10}
\* the contract_months arguments tried: None, and the odd months
MonthFilters == {{}, {1, 3}}

\* the sample dates tried as the date without a trade (0: none); prices of
\* zero are tried where the code tests for them, under adjust_method ratio
ZeroDateChoices == {0, 2}

\* Python None where a contract is expected
NoContract == <<>>

----------------------------------------------------------------------------
(* The columns of the product table (lines 196-231) *)

AllColumns == {"date", "contract_code", "open", "high", "low", "close",
               "volume", "open_interest"}
\* the names tried for a column type: col_type, col_type_price, col_type_px
PossibleNames(col_type) ==
    CASE col_type = "open" -> <<"open", "open_price", "open_px">>
      [] col_type = "high" -> <<"high", "high_price", "high_px">>
      [] col_type = "low" -> <<"low", "low_price", "low_px">>
      [] col_type = "close" -> <<"close", "close_price", "close_px">>
\* Python None where a column name is expected
NoColumn == "None"
\* columns[col_type]: the first possible name the table has
ResolveColumn(col_type, cols) ==
    LET names == PossibleNames(col_type)
        hits == {k \in DOMAIN names : names[k] \in cols}
    IN  IF hits = {} THEN NoColumn ELSE names[Min(hits)]
required_cols == {"open", "high", "low", "close"}
missing_cols(cols) == {c \in required_cols : ResolveColumn(c, cols) = NoColumn}

----------------------------------------------------------------------------
(* generate_continuous, one loop iteration *)

ContractRows(c) == {r \in df : r.contract_code = c}
DatesOf(rows) == {r.date : r \in rows}
RowAt(rows, d) == CHOOSE r \in rows : r.date = d

\* next_contract of position k
NextContract(cs, k) == IF k < Len(cs) THEN cs[k + 1] ELSE NoContract

\* the dates of the inner merge on which the next contract's volume is higher
HigherVolGe(c, n) ==
    {d \in DatesOf(ContractRows(c)) \cap DatesOf(ContractRows(n)) :
        RowAt(ContractRows(n), d).volume >= RowAt(ContractRows(c), d).volume}
HigherVol(c, n) ==
    {d \in DatesOf(ContractRows(c)) \cap DatesOf(ContractRows(n)) :
        RowAt(ContractRows(n), d).volume > RowAt(ContractRows(c), d).volume}

\* the dates of the inner merge on which the next contract's open interest is higher
HigherOi(c, n) ==
    {d \in DatesOf(ContractRows(c)) \cap DatesOf(ContractRows(n)) :
        RowAt(ContractRows(n), d).open_interest > RowAt(ContractRows(c), d).open_interest}

\* rollover_date of the iteration for contract c with next contract n
RolloverDateByVolume(c, n) ==
    IF n # NoContract
    THEN (IF HigherVol(c, n) # {} THEN Min(HigherVol(c, n)) ELSE NoDate)
    ELSE NoDate
RolloverDate(c, n) ==
    IF roll_strategy = "volume" /\ n # NoContract
    THEN (IF HigherVol(c, n) # {} THEN Min(HigherVol(c, n)) ELSE NoDate)
    ELSE IF roll_strategy = "oi" /\ n # NoContract
    THEN (IF HigherOi(c, n) # {} THEN Min(HigherOi(c, n)) ELSE NoDate)
    ELSE IF roll_strategy = "time"
    THEN (IF ExtractExpiryDate(c) # NoDate
          THEN ExtractExpiryDate(c) - dominant_days ELSE NoDate)
    ELSE IF roll_strategy = "fixed" /\ n # NoContract
    THEN (IF ContractMatch(c).found
          THEN FixedMonthEnd(c) - rollover_days ELSE NoDate)
    ELSE NoDate

\* the iteration reaches a datetime() call with arguments it rejects
RollRaises(c, n) ==
    /\ ContractMatch(c).found
    /\ \/ roll_strategy = "time"
       \/ roll_strategy = "fixed" /\ n # NoContract
    /\ \/ Len(YearMonth(c).month) = 0
       \/ ~MonthEndValid(ToInt(YearMonth(c).year), ToInt(YearMonth(c).month))

Adjusting(k) == k > 1 /\ adjust_method \in {"backward", "forward", "ratio", "difference"}

\* the earliest date present in the series and in the contract's bars
OverlapDate(c) ==
    LET both == DatesOf(Range(continuous_df)) \cap DatesOf(ContractRows(c))
    IN  IF both = {} THEN NoDate ELSE Min(both)

\* adj_close of the first series row dated d
PrevPrice(d) ==
    continuous_df[Min({k \in DOMAIN continuous_df : continuous_df[k].date = d})].adj_close
CurrPriceOpen(c, d) == RInt(RowAt(ContractRows(c), d).open)
CurrPrice(c, d) == RInt(RowAt(ContractRows(c), d).close)

\* the prices of the overlap date: <<prev_price, curr_price>>
OverlapPrices(c) ==
    LET d == OverlapDate(c)
    IN  <<PrevPrice(d), CurrPrice(c, d)>>

NewAdjustmentFactorReversed(c, k) ==
    IF Adjusting(k) /\ adjust_method = "difference" /\ OverlapDate(c) # NoDate
    THEN RSub(OverlapPrices(c)[2], OverlapPrices(c)[1])
    ELSE adjustment_factor
NewAdjustmentFactor(c, k) ==
    IF Adjusting(k) /\ adjust_method = "difference" /\ OverlapDate(c) # NoDate
    THEN RSub(OverlapPrices(c)[1], OverlapPrices(c)[2])
    ELSE adjustment_factor

NewAdjustmentRatio(c, k) ==
    IF /\ Adjusting(k) /\ adjust_method = "ratio" /\ OverlapDate(c) # NoDate
       /\ OverlapPrices(c)[2].n # 0
    THEN RDiv(OverlapPrices(c)[1], OverlapPrices(c)[2])
    ELSE adjustment_ratio

\* the local adjustment of the backward and forward methods
LocalAdjustment(c) ==
    IF OverlapDate(c) # NoDate
    THEN RSub(OverlapPrices(c)[1], OverlapPrices(c)[2])
    ELSE RInt(0)

\* the adjustment of the contract's segment: what is added, what is multiplied
SegmentAdjustment(c, k) ==
    IF ~Adjusting(k) THEN [add |-> RInt(0), mul |-> RInt(1)]
    ELSE IF adjust_method = "difference"
    THEN [add |-> NewAdjustmentFactor(c, k), mul |-> RInt(1)]
    ELSE IF adjust_method = "ratio"
    THEN [add |-> RInt(0), mul |-> NewAdjustmentRatio(c, k)]
    ELSE [add |-> LocalAdjustment(c), mul |-> RInt(1)]

\* an adjusted price of the contract's segment
AdjustPrice(adj, raw) == RAdd(RMul(RInt(raw), adj.mul), adj.add)

\* a row of contract_df with the columns of cols_to_keep
KeptRow(c, adj, r) ==
    [date |-> r.date, contract |-> c,
     adj_open |-> AdjustPrice(adj, r.open), adj_high |-> AdjustPrice(adj, r.high),
     adj_low |-> AdjustPrice(adj, r.low), adj_close |-> AdjustPrice(adj, r.close),
     volume |-> r.volume, open_interest |-> r.open_interest]

\* the filter up to the rollover date
UpToRolloverStrict(rows, rd) == IF rd # NoDate THEN {r \in rows : r.date < rd} ELSE rows
UpToRollover(rows, rd) == IF rd # NoDate THEN {r \in rows : r.date <= rd} ELSE rows

\* the rows of the contract not yet dated in the series
NewRowsNoFilter(rows) == rows
NewRowsAfterLast(rows) ==
    IF Len(continuous_df) = 0 THEN rows
    ELSE {r \in rows : r.date > Max(DatesOf(Range(continuous_df)))}
NewRows(rows) ==
    IF Len(continuous_df) = 0 THEN rows
    ELSE {r \in rows : r.date \notin DatesOf(Range(continuous_df))}

\* the rows of a frame in ascending date order (contract_df.sort_values("date"))
RECURSIVE RowsByDate(_)
RowsByDate(rows) ==
    IF rows = {} THEN <<>>
    ELSE LET r == CHOOSE x \in rows : \A y \in rows : x.date <= y.date
         IN  <<r>> \o RowsByDate(rows \ {r})

\* the rows the iteration for contracts[k] appends to the series
Appended(k) ==
    LET c == contracts[k]
        rd == RolloverDate(c, NextContract(contracts, k))
        kept == RowsByDate(NewRows(UpToRollover(ContractRows(c), rd)))
        adj == SegmentAdjustment(c, k)
    IN  [r \in 1..Len(kept) |-> KeptRow(c, adj, kept[r])]

\* the "continue" of the adjustment branch: the contract is skipped
Skipped(k) == Adjusting(k) /\ Len(continuous_df) = 0

----------------------------------------------------------------------------
(* The part of the state a run of the other program leaves untouched *)

MIdle ==
    /\ script = "none"
    /\ signals_df = <<>>
    /\ main_contracts_df = <<>>
    /\ open_df = <<>>
    /\ trading_days = <<>>
    /\ daily_pnl_records = <<>>
    /\ record_row = <<>>
    /\ j = 0
    /\ mpc = "idle"
    /\ out_matched = <<>>
    /\ out_daily = <<>>

SIdle ==
    /\ sm_df = <<>>
    /\ sm_i = 0
    /\ current_major_contract = "None"
    /\ major_contracts = <<>>
    /\ spc = "idle"

\* no day files; no outcome of a first run yet
NoFiles == [header |-> {}, rows |-> <<>>]
NoFile == [exists |-> FALSE, header |-> {}, lines |-> <<>>]
NoOutcome == [kpc |-> "none", result |-> <<>>, returned |-> "none", saved |-> FALSE,
              report |-> "none", rows |-> 0]

KIdle ==
    /\ df = {}
    /\ order = <<>>
    /\ roll_strategy = "none"
    /\ adjust_method = "none"
    /\ contract_months = {}
    /\ dominant_days = 0
    /\ rollover_days = 0
    /\ contracts = <<>>
    /\ i = 0
    /\ continuous_df = <<>>
    /\ has_columns = FALSE
    /\ adjustment_factor = RInt(0)
    /\ adjustment_ratio = RInt(1)
    /\ rollover = <<>>
    /\ kpc = "idle"
    /\ result = <<>>
    /\ segment = <<>>
    /\ day_files = NoFiles
    /\ merged_file = NoFile
    /\ df_columns = {}
    /\ returned = "none"
    /\ saved = FALSE
    /\ report = "none"
    /\ run = 0
    /\ variant = "none"
    /\ first = NoOutcome

----------------------------------------------------------------------------
(* generate_continuous, the actions *)

\* the inputs of a run: a product table and the parameters of the call
KInput(table, ord) ==
    /\ df = table
    /\ order = ord
    /\ contracts = <<>>
    /\ i = 0
    /\ continuous_df = <<>>
    /\ has_columns = FALSE
    /\ adjustment_factor = RInt(0)
    /\ adjustment_ratio = RInt(1)
    /\ rollover = <<>>
    /\ segment = <<>>
    /\ result = <<>>
    /\ returned = "none"
    /\ saved = FALSE
    /\ report = "none"

\* the contracts of S in the order of their first row: the rows of the later
\* contracts come first in the file
FileOrder(S) == Reverse([k \in 1..Cardinality(S) |-> SymbolOf(SetToSeq(S)[k])])

\* the parameters of the call
KParams(rs, am) ==
    /\ roll_strategy = rs
    /\ adjust_method = am
    /\ contract_months \in MonthFilters
    /\ dominant_days \in (IF rs = "time" THEN DayCounts ELSE {0})
    /\ rollover_days \in (IF rs = "fixed" THEN DayCounts ELSE {0})

\* the tables tried: volume and open interest vary in the tables given to the
\* strategies that read them, zero prices in those given to the ratio method
TableOk(S, liq) ==
    /\ \A m \in S : \E c \in Cells(S) : c[1] = m /\ liq[c] > 0
    /\ Cardinality({c \in Cells(S) : liq[c] > 0}) <= MaxBars
LiqChoices(S, rs) == [Cells(S) -> 0..(IF rs \in {"volume", "oi"} THEN MaxVol ELSE 1)]
ZeroChoices(am) == IF am = "ratio" THEN ZeroDateChoices ELSE {0}

\* generate_continuous called on a loaded table that has every column
KInit ==
    \E S \in (SUBSET (1..MaxContracts)) \ {{}} :
    \E rs \in RollStrategies, am \in AdjustMethods :
    \E liq \in LiqChoices(S, rs), zd \in ZeroChoices(am) :
        /\ TableOk(S, liq)
        /\ KInput(Table(S, liq, zd), FileOrder(S))
        /\ KParams(rs, am)
        /\ kpc = "start"
        /\ day_files = NoFiles
        /\ merged_file = NoFile
        /\ df_columns = AllColumns
        /\ run = 1
        /\ variant = "none"
        /\ first = NoOutcome
        /\ MIdle
        /\ SIdle

\* lines 240-253: the contracts whose month is in contract_months, when given
FilterMonthsNone(cs) == cs
FilterMonths(cs) ==
    IF contract_months # {}
    THEN SelectSeq(cs, LAMBDA c : extract_month(c) \in contract_months)
    ELSE cs

\* lines 233-253: identify the contracts and filter them by contract_months
Identify ==
    /\ kpc = "start"
    /\ df # {}
    /\ missing_cols(df_columns) = {}
    /\ contracts' = FilterMonths(IdentifyContracts(order))
    /\ i' = 1
    /\ kpc' = IF contract_months # {} /\ \E c \in Range(order) : ~MonthParses(c)
              THEN "error" ELSE "loop"
    /\ UNCHANGED <<df, order, roll_strategy, adjust_method, contract_months, dominant_days,
                   rollover_days, continuous_df, has_columns, adjustment_factor,
                   adjustment_ratio, rollover, result, segment>>
    /\ UNCHANGED <<xvars, mvars, svars>>

\* lines 262-429: one iteration of the loop over the contracts
Iterate ==
    /\ kpc = "loop"
    /\ i <= Len(contracts)
    /\ LET c == contracts[i]
           n == NextContract(contracts, i)
       IN  IF RollRaises(c, n)
           THEN /\ kpc' = "error"
                /\ UNCHANGED <<i, continuous_df, has_columns, adjustment_factor,
                               adjustment_ratio, rollover, segment>>
           ELSE /\ kpc' = "loop"
                /\ i' = i + 1
                /\ rollover' = Append(rollover, RolloverDate(c, n))
                /\ segment' = Append(segment,
                        [contract |-> c, skipped |-> Skipped(i), adjusting |-> Adjusting(i),
                         overlap |-> OverlapDate(c),
                         add |-> SegmentAdjustment(c, i).add,
                         mul |-> SegmentAdjustment(c, i).mul])
                /\ IF Skipped(i)
                   THEN UNCHANGED <<continuous_df, has_columns, adjustment_factor,
                                    adjustment_ratio>>
                   ELSE /\ continuous_df' = continuous_df \o Appended(i)
                        /\ has_columns' = TRUE
                        /\ adjustment_factor' = NewAdjustmentFactor(c, i)
                        /\ adjustment_ratio' = NewAdjustmentRatio(c, i)
    /\ UNCHANGED <<df, order, roll_strategy, adjust_method, contract_months, dominant_days,
                   rollover_days, contracts, result>>
    /\ UNCHANGED <<xvars, mvars, svars>>

\* the final sort_values("date") of the series
RECURSIVE InsertByDate(_, _)
InsertByDate(sorted, r) ==
    IF Len(sorted) = 0 THEN <<r>>
    ELSE IF r.date < sorted[Len(sorted)].date
         THEN InsertByDate(SubSeq(sorted, 1, Len(sorted) - 1), r) \o <<sorted[Len(sorted)]>>
         ELSE sorted \o <<r>>

RECURSIVE SortByDate(_)
SortByDate(rows) ==
    IF Len(rows) = 0 THEN <<>>
    ELSE InsertByDate(SortByDate(SubSeq(rows, 1, Len(rows) - 1)), rows[Len(rows)])

\* the rename of the adjusted columns
Renamed(r) ==
    [date |-> r.date, contract |-> r.contract,
     open |-> r.adj_open, high |-> r.adj_high, low |-> r.adj_low, close |-> r.adj_close,
     volume |-> r.volume, open_interest |-> r.open_interest]

\* lines 431-454: sort, rename and return the series
Finish ==
    /\ kpc = "loop"
    /\ i > Len(contracts)
    /\ has_columns
    /\ result' = LET sorted == SortByDate(continuous_df)
                  IN  [k \in 1..Len(sorted) |-> Renamed(sorted[k])]
    /\ kpc' = "done"
    /\ returned' = "series"
    /\ saved' = TRUE
    /\ UNCHANGED <<df, order, roll_strategy, adjust_method, contract_months, dominant_days,
                   rollover_days, contracts, i, continuous_df, has_columns,
                   adjustment_factor, adjustment_ratio, rollover, segment>>
    /\ UNCHANGED <<day_files, merged_file, df_columns, report, run, variant, first>>
    /\ UNCHANGED <<mvars, svars>>

\* line 432 on a frame that never got a "date" column: KeyError
FinishKeyError ==
    /\ kpc = "loop"
    /\ i > Len(contracts)
    /\ ~has_columns
    /\ kpc' = "error"
    /\ UNCHANGED <<df, order, roll_strategy, adjust_method, contract_months, dominant_days,
                   rollover_days, contracts, i, continuous_df, has_columns,
                   adjustment_factor, adjustment_ratio, rollover, result, segment>>
    /\ UNCHANGED <<xvars, mvars, svars>>

KNext == Identify \/ Iterate \/ Finish \/ FinishKeyError

SpecKline == KInit /\ [][KNext]_vars

\* contract symbols the regular expression does not match: no letters before
\* the digits; no digits after the letters
OddSymbols == {<<"2", "1", "0", "2">>, <<"X", "Y">>}
\* the --adjust-method values tried on the tables with such a symbol
SymbolAdjustMethods == {"none", "difference"}

\* the table and the file order in which the contract of month m carries sym
WithSymbol(table, m, sym) ==
    {[r EXCEPT !.contract_code = IF @ = SymbolOf(m) THEN sym ELSE @] : r \in table}
SymbolOrder(ord, m, sym) ==
    [k \in DOMAIN ord |-> IF ord[k] = SymbolOf(m) THEN sym ELSE ord[k]]

\* generate_continuous called on a table one contract of which has a symbol
\* that does not parse
KInitSymbols ==
    \E S \in (SUBSET (1..MaxContracts)) \ {{}} :
    \E rs \in RollStrategies, am \in SymbolAdjustMethods :
    \E liq \in LiqChoices(S, rs), m \in S, sym \in OddSymbols :
        /\ TableOk(S, liq)
        /\ KInput(WithSymbol(Table(S, liq, 0), m, sym), SymbolOrder(FileOrder(S), m, sym))
        /\ KParams(rs, am)
        /\ kpc = "start"
        /\ day_files = NoFiles
        /\ merged_file = NoFile
        /\ df_columns = AllColumns
        /\ run = 1
        /\ variant = "none"
        /\ first = NoOutcome
        /\ MIdle
        /\ SIdle

SpecSymbols == KInitSymbols /\ [][KNext]_vars

----------------------------------------------------------------------------
(* The CSV files of the loader: to_csv, read_csv, to_datetime *)

DigitCh(n) == CHOOSE ch \in Digits : DigitVal(ch) = n

\* str() of a non-negative integer, as to_csv writes it
RECURSIVE IntText(_)
IntText(n) == IF n < 10 THEN <<DigitCh(n)>> ELSE IntText(n \div 10) \o <<DigitCh(n % 10)>>

Pad2(n) == IF n < 10 THEN <<"0", DigitCh(n)>> ELSE IntText(n)

\* strftime('%Y-%m-%d') of a date of the sample years
DateText(o) ==
    LET y == CHOOSE y \in 2020..2022 : DaysBeforeYear(y) < o /\ o <= DaysBeforeYear(y + 1)
        m == CHOOSE m \in 1..12 :
                 /\ DaysBeforeMonth(y, m) < o - DaysBeforeYear(y)
                 /\ o - DaysBeforeYear(y) <= DaysBeforeMonth(y, m) + DaysInMonth(y, m)
        d == o - DaysBeforeYear(y) - DaysBeforeMonth(y, m)
    IN  IntText(y) \o <<"-">> \o Pad2(m) \o <<"-">> \o Pad2(d)

\* pd.to_datetime of a 'YYYY-MM-DD' string
ParseDate(text) ==
    Ordinal(ToInt(SubSeq(text, 1, 4)), ToInt(SubSeq(text, 6, 7)), ToInt(SubSeq(text, 9, 10)))

\* the fields of a row; those a day file holds as text
Fields == {"date", "contract_code", "open", "high", "low", "close", "volume", "open_interest"}
TextFields == {"date", "contract_code"}

\* a row of a day file as read_csv gives it: the date is still a string
RawRow(b) == [b EXCEPT !.date = DateText(b.date)]

\* the rows of the day files in file order: contract by contract in ord
RECURSIVE FileRows(_, _)
FileRows(table, ord) ==
    IF Len(ord) = 0 THEN <<>>
    ELSE LET rows == RowsByDate({r \in table : r.contract_code = Head(ord)})
         IN  [k \in 1..Len(rows) |-> RawRow(rows[k])] \o FileRows(table, Tail(ord))

\* to_csv(index=False): every cell written as text
CsvLine(row) == [f \in Fields |-> IF f \in TextFields THEN row[f] ELSE IntText(row[f])]
ToCsvLastRead(files) ==
    [exists |-> TRUE, header |-> files.header,
     lines |-> <<CsvLine(files.rows[Len(files.rows)])>>]
ToCsv(files) ==
    [exists |-> TRUE, header |-> files.header,
     lines |-> [k \in 1..Len(files.rows) |-> CsvLine(files.rows[k])]]

\* read_csv: a column whose cells are all digit strings is read as integers,
\* any other column as strings
AllDigits(text) == Len(text) > 0 /\ \A k \in DOMAIN text : text[k] \in Digits
IsNumeric(file, f) == \A k \in DOMAIN file.lines : AllDigits(file.lines[k][f])
ReadCsv(file) ==
    [k \in 1..Len(file.lines) |->
        [f \in Fields |-> IF IsNumeric(file, f) THEN ToInt(file.lines[k][f])
                          ELSE file.lines[k][f]]]

\* line 174: df["date"] = pd.to_datetime(df["date"])
ToDatetime(rows) == {[rows[k] EXCEPT !.date = ParseDate(rows[k].date)] : k \in DOMAIN rows}

\* unique().tolist(): the values in the order of their first appearance
RECURSIVE Unique(_)
Unique(seq) ==
    IF Len(seq) = 0 THEN <<>>
    ELSE LET front == Unique(SubSeq(seq, 1, Len(seq) - 1))
             x == seq[Len(seq)]
         IN  IF x \in Range(front) THEN front ELSE Append(front, x)
ContractColumn(rows) == [k \in 1..Len(rows) |-> rows[k].contract_code]

----------------------------------------------------------------------------
(* main of generate_continuous.py and _load_product_data *)

\* the headers tried: every column; close named close_price; no close column
HeaderChoices ==
    {AllColumns, (AllColumns \ {"close"}) \cup {"close_price"}, AllColumns \ {"close"}}

\* the --adjust-method values tried in the runs of main
MainAdjustMethods == {"none", "ratio", "backward"}

\* main called on a data directory without a merged file
KInitMain ==
    \E S \in (SUBSET (1..MaxContracts)) \ {{}} :
    \E rs \in RollStrategies, am \in MainAdjustMethods :
    \E liq \in LiqChoices(S, rs) :
    \* the other headers are tried on the tables of one contract
    \E header \in (IF Cardinality(S) = 1 THEN HeaderChoices ELSE {AllColumns}) :
        /\ TableOk(S, liq)
        /\ KInput({}, <<>>)
        /\ KParams(rs, am)
        /\ kpc = "load"
        /\ day_files = [header |-> header, rows |-> FileRows(Table(S, liq, 0), FileOrder(S))]
        /\ merged_file = NoFile
        /\ df_columns = {}
        /\ run = 1
        /\ variant = "none"
        /\ first = NoOutcome
        /\ MIdle
        /\ SIdle

\* what the loop of generate_continuous and main's report leave alone
LoadFrame ==
    /\ UNCHANGED <<roll_strategy, adjust_method, contract_months, dominant_days,
                   rollover_days, contracts, i, continuous_df, has_columns,
                   adjustment_factor, adjustment_ratio, rollover, result, segment>>
    /\ UNCHANGED <<day_files, saved, report, run, variant, first>>
    /\ UNCHANGED <<mvars, svars>>

\* _load_product_data, merged file absent: merge_by_product concatenates the day
\* files, saves the merged file and returns the frame; without day files the
\* frame is empty and generate_continuous returns it (lines 171-173)
LoadMerge ==
    /\ kpc = "load"
    /\ ~merged_file.exists
    /\ IF Len(day_files.rows) = 0
       THEN /\ kpc' = "returned"
            /\ returned' = "table"
            /\ UNCHANGED <<df, order, df_columns, merged_file>>
       ELSE /\ kpc' = "start"
            /\ merged_file' = ToCsv(day_files)
            /\ df' = ToDatetime(day_files.rows)
            /\ order' = Unique(ContractColumn(day_files.rows))
            /\ df_columns' = day_files.header
            /\ UNCHANGED returned
    /\ LoadFrame

\* _load_product_data, merged file present: read_csv of the merged file
LoadMerged ==
    /\ kpc = "load"
    /\ merged_file.exists
    /\ kpc' = "start"
    /\ df' = ToDatetime(ReadCsv(merged_file))
    /\ order' = Unique(ContractColumn(ReadCsv(merged_file)))
    /\ df_columns' = merged_file.header
    /\ UNCHANGED <<merged_file, returned>>
    /\ LoadFrame

\* lines 225-231: a required column is missing: the table itself is returned
MissingColumns ==
    /\ kpc = "start"
    /\ missing_cols(df_columns) # {}
    /\ kpc' = "returned"
    /\ returned' = "table"
    /\ UNCHANGED <<df, order, df_columns, merged_file>>
    /\ LoadFrame

\* continuous_df.empty in main
ReturnedEmpty ==
    \/ returned = "series" /\ Len(result) = 0
    \/ returned = "table" /\ df = {}

\* main, lines 115-124: the report on the returned frame
Report ==
    /\ kpc \in {"done", "returned"}
    /\ report' = IF ~ReturnedEmpty THEN "success" ELSE "error"
    /\ kpc' = "reported"
    /\ UNCHANGED <<df, order, roll_strategy, adjust_method, contract_months, dominant_days,
                   rollover_days, contracts, i, continuous_df, has_columns,
                   adjustment_factor, adjustment_ratio, rollover, result, segment>>
    /\ UNCHANGED <<day_files, merged_file, df_columns, returned, saved, run, variant, first>>
    /\ UNCHANGED <<mvars, svars>>

\* the outcome of the run that has ended
Outcome ==
    [kpc |-> kpc, result |-> result, returned |-> returned, saved |-> saved,
     report |-> report, rows |-> Len(day_files.rows)]

\* main is started again, with the same parameters, on the given files
Restart(v, files, file) ==
    /\ kpc \in {"reported", "error"}
    /\ run = 1
    /\ first' = Outcome
    /\ run' = 2
    /\ variant' = v
    /\ day_files' = files
    /\ merged_file' = file
    /\ kpc' = "load"
    /\ df' = {}
    /\ order' = <<>>
    /\ df_columns' = {}
    /\ contracts' = <<>>
    /\ i' = 0
    /\ continuous_df' = <<>>
    /\ has_columns' = FALSE
    /\ adjustment_factor' = RInt(0)
    /\ adjustment_ratio' = RInt(1)
    /\ rollover' = <<>>
    /\ segment' = <<>>
    /\ result' = <<>>
    /\ returned' = "none"
    /\ saved' = FALSE
    /\ report' = "none"
    /\ UNCHANGED <<roll_strategy, adjust_method, contract_months, dominant_days,
                   rollover_days>>
    /\ UNCHANGED <<mvars, svars>>

\* the second run on the same data directory: the merged file is there now
Rerun == Restart("reload", day_files, merged_file)

\* the day files without the rows of the contracts contract_months excludes
WithoutExcluded(files) ==
    [files EXCEPT !.rows =
        SelectSeq(files.rows, LAMBDA r : extract_month(r.contract_code) \in contract_months)]

\* the second run on a fresh data directory that lacks the excluded contracts
RerunWithoutExcluded ==
    /\ contract_months # {}
    /\ Restart("reduced", WithoutExcluded(day_files), NoFile)

MainNext ==
    \/ LoadMerge \/ LoadMerged \/ MissingColumns
    \/ Identify \/ Iterate \/ Finish \/ FinishKeyError
    \/ Report \/ Rerun \/ RerunWithoutExcluded

SpecMain == KInitMain /\ [][MainNext]_vars

\* contract symbols with an expiry token of 3, 4 and 6 digits, each with the
\* month it names and the years it can name: a token of 3 digits is read with
\* a year of one digit (X201: January 2022) or of two (X201: 2020, month 1)
Tokens ==
    {[symbol |-> <<"X", "1", "0", "9">>, years |-> {2021, 2010}, month |-> 9],
     [symbol |-> <<"X", "2", "0", "1">>, years |-> {2022, 2020}, month |-> 1],
     [symbol |-> <<"X", "2", "1", "0", "9">>, years |-> {2021}, month |-> 9],
     [symbol |-> <<"X", "2", "1", "1", "0">>, years |-> {2021}, month |-> 10],
     [symbol |-> <<"X", "2", "0", "2", "1", "0", "9">>, years |-> {2021}, month |-> 9],
     [symbol |-> <<"X", "2", "0", "2", "2", "0", "1">>, years |-> {2022}, month |-> 1]}
\* largest number of contracts of a table of such symbols
MaxTokens == 3

\* the one bar of a contract of such a table
TokenBar(sym) ==
    [date |-> DateOf(1), contract_code |-> sym, open |-> 10, high |-> 13, low |-> 8,
     close |-> 11, volume |-> 1, open_interest |-> 1]

\* generate_continuous called on a table of these contracts, in any file order
KInitTokens ==
    \E n \in 1..MaxTokens : \E ord \in [1..n -> {t.symbol : t \in Tokens}] :
        /\ \A a, b \in 1..n : ord[a] = ord[b] => a = b
        /\ KInput({TokenBar(ord[k]) : k \in 1..n}, ord)
        /\ KParams("volume", "none")
        /\ contract_months = {}
        /\ kpc = "start"
        /\ day_files = NoFiles
        /\ merged_file = NoFile
        /\ df_columns = AllColumns
        /\ run = 1
        /\ variant = "none"
        /\ first = NoOutcome
        /\ MIdle
        /\ SIdle

\* the call up to the return of _identify_contracts
SpecTokens == KInitTokens /\ [][Identify]_vars

----------------------------------------------------------------------------
(* generate_continuous called twice on one table *)

\* the adjust methods of the first call
CallMethods == {"none", "difference"}

\* the first call: any roll strategy, no contract_months
KInitCalls ==
    /\ KInit
    /\ adjust_method \in CallMethods
    /\ contract_months = {}

\* generate_continuous is called again, on the given table with the given
\* adjust method and otherwise the same parameters
CallAgain(v, table, am) ==
    /\ kpc \in {"done", "error"}
    /\ run = 1
    /\ first' = Outcome
    /\ run' = 2
    /\ variant' = v
    /\ df' = table
    /\ adjust_method' = am
    /\ kpc' = "start"
    /\ contracts' = <<>>
    /\ i' = 0
    /\ continuous_df' = <<>>
    /\ has_columns' = FALSE
    /\ adjustment_factor' = RInt(0)
    /\ adjustment_ratio' = RInt(1)
    /\ rollover' = <<>>
    /\ segment' = <<>>
    /\ result' = <<>>
    /\ returned' = "none"
    /\ saved' = FALSE
    /\ report' = "none"
    /\ UNCHANGED <<order, roll_strategy, contract_months, dominant_days, rollover_days,
                   day_files, merged_file, df_columns>>
    /\ UNCHANGED <<mvars, svars>>

\* the second call differs in adjust_method only
CallWithMethod ==
    \E am \in AdjustMethods \ {adjust_method} : CallAgain("method", df, am)

\* the table in which the rows of T have volume and open interest exchanged
SwapLiquidity(table, T) ==
    {IF r \in T THEN [r EXCEPT !.volume = r.open_interest, !.open_interest = r.volume]
     ELSE r : r \in table}

\* the second call of a run under "fixed" differs in volume and open interest only
CallWithLiquidity ==
    /\ roll_strategy = "fixed"
    /\ \E T \in (SUBSET df) \ {{}} : CallAgain("liquidity", SwapLiquidity(df, T), adjust_method)

CallsNext == Identify \/ Iterate \/ Finish \/ CallWithMethod \/ CallWithLiquidity

SpecCalls == KInitCalls /\ [][CallsNext]_vars

----------------------------------------------------------------------------
(* Properties of generate_continuous *)

\* position of a contract in the roll sequence
PosOf(c) == CHOOSE k \in DOMAIN contracts : contracts[k] = c
\* the series rows tagged with contract c
Tagged(rows, c) == {r \in Range(rows) : r.contract = c}
\* the value the roll strategy compares
LiqAt(c, d) ==
    IF roll_strategy = "volume" THEN RowAt(ContractRows(c), d).volume
    ELSE RowAt(ContractRows(c), d).open_interest
CommonDates(c, n) == DatesOf(ContractRows(c)) \cap DatesOf(ContractRows(n))
\* the contracts of the table
TableContracts == {r.contract_code : r \in df}

\* C1: the returned series has strictly increasing dates, so no date occurs in
\* two rows, for every roll strategy, adjust method and contract_months.
C1_DatesStrictlyIncreasing ==
    kpc = "done" =>
        \A a, b \in DOMAIN result : a < b => result[a].date < result[b].date

\* a returned series of two contracts in which a bar of the later contract was
\* dropped because its date was already covered
C1_Witness ==
    /\ kpc = "done"
    /\ Len(result) >= 3
    /\ \E a, b \in DOMAIN result : result[a].contract # result[b].contract
    /\ \E r \in df : \E a \in DOMAIN result :
          /\ r.date = result[a].date
          /\ r.contract_code # result[a].contract
          /\ PosOf(result[a].contract) < PosOf(r.contract_code)
          /\ r.contract_code \in Range(contracts)

\* the raw series of contract c: its bars in date order with raw prices
RawSeries(c) ==
    LET rows == RowsByDate(ContractRows(c))
    IN  [k \in 1..Len(rows) |->
            [date |-> rows[k].date, contract |-> c,
             open |-> RInt(rows[k].open), high |-> RInt(rows[k].high),
             low |-> RInt(rows[k].low), close |-> RInt(rows[k].close),
             volume |-> rows[k].volume, open_interest |-> rows[k].open_interest]]

\* C2: for a table of exactly one contract and adjust_method none, the returned
\* series is that contract's raw series, with no bar dropped, under every roll
\* strategy and every dominant_days/rollover_days.
C2_SingleContractRawSeries ==
    (/\ kpc = "done"
     /\ Cardinality(TableContracts) = 1
     /\ adjust_method = "none"
     /\ contract_months = {})
    => \A c \in TableContracts : result = RawSeries(c)

\* the roll date of processed position k is the earliest common date on which
\* the next contract's value is strictly greater, and none when there is no such date
RollDateIsEarliestHigher(k) ==
    LET c == contracts[k]
        n == NextContract(contracts, k)
        rd == rollover[k]
    IN  /\ n = NoContract => rd = NoDate
        /\ n # NoContract =>
             /\ rd # NoDate =>
                  /\ rd \in CommonDates(c, n)
                  /\ LiqAt(n, rd) > LiqAt(c, rd)
                  /\ \A d \in CommonDates(c, n) : d < rd => LiqAt(n, d) <= LiqAt(c, d)
             /\ rd = NoDate => \A d \in CommonDates(c, n) : LiqAt(n, d) <= LiqAt(c, d)
        /\ rd # NoDate => \A r \in Tagged(continuous_df, c) : r.date <= rd

\* every bar of contracts[k] is in the series, tagged with it
ContributesAllBars(k) ==
    \A r \in ContractRows(contracts[k]) :
        \E row \in Tagged(continuous_df, contracts[k]) : row.date = r.date

\* every bar of contracts[k] is in the series tagged with it, unless its date
\* was already covered by an earlier contract of the roll sequence
ContributesAllNewBars(k) ==
    \A r \in ContractRows(contracts[k]) :
        \E row \in Range(continuous_df) :
            /\ row.date = r.date
            /\ PosOf(row.contract) <= k

\* C3 as stated: under volume (oi), the roll date is the earliest common date
\* on which the next contract's volume (open interest) is strictly greater;
\* when there is none the contract contributes all its bars.
C3_VolumeRollOriginal ==
    (roll_strategy \in {"volume", "oi"} /\ kpc \in {"loop", "done"}) =>
        \A k \in DOMAIN rollover :
            /\ RollDateIsEarliestHigher(k)
            /\ rollover[k] = NoDate => ContributesAllBars(k)

\* C3 as amended: ... when there is none the contract contributes all its bars
\* whose dates are not already in the series.
C3_VolumeRoll ==
    (roll_strategy \in {"volume", "oi"} /\ kpc \in {"loop", "done"}) =>
        \A k \in DOMAIN rollover :
            /\ RollDateIsEarliestHigher(k)
            /\ rollover[k] = NoDate => ContributesAllNewBars(k)

\* the scenario of the specification: the current contract has the higher volume
\* on day 1 and the lower on day 2, and the roll date is day 2
C3_Witness ==
    /\ kpc = "done"
    /\ roll_strategy = "volume"
    /\ contracts = <<SymbolOf(1), SymbolOf(2)>>
    /\ CommonDates(SymbolOf(1), SymbolOf(2)) = {DateOf(1), DateOf(2)}
    /\ LiqAt(SymbolOf(1), DateOf(1)) > LiqAt(SymbolOf(2), DateOf(1))
    /\ LiqAt(SymbolOf(1), DateOf(2)) < LiqAt(SymbolOf(2), DateOf(2))
    /\ rollover[1] = DateOf(2)
    /\ rollover[2] = NoDate
    /\ {r.date : r \in Tagged(result, SymbolOf(1))} = {DateOf(1), DateOf(2)}

\* C10: the last contract of the roll sequence is never truncated: every bar of
\* it whose date is not already in the series appears in the output.
C10_LastContractComplete ==
    (kpc = "done" /\ Len(contracts) > 0) =>
        \A r \in ContractRows(contracts[Len(contracts)]) :
            \E a \in DOMAIN result : result[a].date = r.date

\* iteration k adjusted a contract that has no date in common with the series
RollWithoutOverlap(k) ==
    /\ k > 1
    /\ segment[k].adjusting
    /\ ~segment[k].skipped
    /\ segment[k].overlap = NoDate

\* C11: a contract after the first without a date in common with the series is
\* adjusted with the additive constant (difference, backward, forward) or the
\* ratio (ratio) applied to the previous contract segment.
C11_NoOverlapKeepsAdjustment ==
    kpc \in {"loop", "done"} =>
        \A k \in DOMAIN segment :
            RollWithoutOverlap(k) =>
                /\ segment[k].add = segment[k - 1].add
                /\ segment[k].mul = segment[k - 1].mul

\* the bar r of the table belongs to a contract of the roll sequence and is
\* dated between the first and the last date of the returned series
InsideSeries(r) ==
    /\ r.contract_code \in Range(contracts)
    /\ result[1].date <= r.date
    /\ r.date <= result[Len(result)].date
\* the bar r is not dated after the roll date of its contract
NotAfterRoll(r) ==
    \/ rollover[PosOf(r.contract_code)] = NoDate
    \/ r.date <= rollover[PosOf(r.contract_code)]
HasRowOn(d) == \E a \in DOMAIN result : result[a].date = d

\* C12 as stated: every date between the first and the last date of the series on
\* which a contract of the roll sequence has a bar is a row of the series.
C12_NoGaps ==
    (kpc = "done" /\ Len(result) > 0) =>
        \A r \in df : InsideSeries(r) => HasRowOn(r.date)

\* C12 as amended: every date between the first and the last date of the series
\* on which a contract of the roll sequence has a bar dated no later than that
\* contract's roll date (any bar, when it has no roll date) is a row of the series.
C12_NoGapsBeforeRoll ==
    (kpc = "done" /\ Len(result) > 0) =>
        \A r \in df : (InsideSeries(r) /\ NotAfterRoll(r)) => HasRowOn(r.date)

\* a series with a date the next contract covers with a bar of the contract
\* before it, and a date lost because its only bars lie after their roll date
C12_Witness ==
    /\ kpc = "done"
    /\ Len(result) >= 2
    /\ \E r \in df, a \in DOMAIN result :
          /\ InsideSeries(r)
          /\ NotAfterRoll(r)
          /\ result[a].date = r.date
          /\ result[a].contract # r.contract_code
    /\ \E r \in df :
          /\ InsideSeries(r)
          /\ ~NotAfterRoll(r)
          /\ ~HasRowOn(r.date)

\* the raw close of contract c on date d
RawClose(c, d) == RowAt(ContractRows(c), d).close
\* iteration k computed a ratio roll at an overlap date on which the adjusted
\* close of the series equals the raw close of the contract
RatioRollAtEqualPrices(k) ==
    /\ adjust_method = "ratio"
    /\ segment[k].adjusting
    /\ ~segment[k].skipped
    /\ segment[k].overlap # NoDate
    /\ PrevPrice(segment[k].overlap) = RInt(RawClose(segment[k].contract, segment[k].overlap))
\* the ratio of iteration k is 1 and the rows of its segment carry raw prices
UnitRatio(k) ==
    /\ segment[k].mul = RInt(1)
    /\ \A row \in Tagged(continuous_df, segment[k].contract) :
          LET raw == RowAt(ContractRows(segment[k].contract), row.date)
          IN  /\ row.adj_open = RInt(raw.open)
              /\ row.adj_high = RInt(raw.high)
              /\ row.adj_low = RInt(raw.low)
              /\ row.adj_close = RInt(raw.close)

\* C13 as stated: under ratio, when the adjusted close of the series on the
\* overlap date equals the raw close of the new contract on that date, the ratio
\* is exactly 1 and every adjusted price of the new segment equals its raw value.
C13_RatioOneAtEqualPrices ==
    kpc \in {"loop", "done"} =>
        \A k \in DOMAIN segment : RatioRollAtEqualPrices(k) => UnitRatio(k)

\* C13 as amended: ... equals the raw close of the new contract on that date and
\* that close is not zero, the ratio is exactly 1 and every adjusted price of the
\* new segment equals its raw value; when both are zero the ratio of the previous
\* roll is kept.
C13_RatioOneAtEqualNonzeroPrices ==
    kpc \in {"loop", "done"} =>
        \A k \in DOMAIN segment :
            RatioRollAtEqualPrices(k) =>
                IF RawClose(segment[k].contract, segment[k].overlap) # 0
                THEN UnitRatio(k)
                ELSE segment[k].mul = segment[k - 1].mul

\* a ratio roll at equal, non-zero prices whose segment has rows in the series
C13_Witness ==
    /\ kpc = "done"
    /\ \E k \in DOMAIN segment :
          /\ RatioRollAtEqualPrices(k)
          /\ RawClose(segment[k].contract, segment[k].overlap) # 0
          /\ segment[k].mul = RInt(1)
          /\ Tagged(continuous_df, segment[k].contract) # {}

\* the dates of the series rows tagged with contract c
TagDates(c) == {result[a].date : a \in {x \in DOMAIN result : result[x].contract = c}}

\* C21: at every roll from a contract c to the next contract n, every row tagged
\* c is dated on or before c's roll date and every row tagged n is dated
\* strictly after it.
C21_RollDateSeparates ==
    kpc = "done" =>
        \A k \in DOMAIN contracts :
            (k < Len(contracts) /\ rollover[k] # NoDate) =>
                /\ \A d \in TagDates(contracts[k]) : d <= rollover[k]
                /\ \A d \in TagDates(contracts[k + 1]) : d > rollover[k]

\* the bar r is one its contract offers to the series: not after its roll date
Offered(r) ==
    /\ r.contract_code \in Range(contracts)
    /\ NotAfterRoll(r)
\* the earliest contract in roll order that offers a bar dated d
FirstWriter(d) ==
    contracts[Min({PosOf(r.contract_code) : r \in {x \in df : x.date = d /\ Offered(x)}})]

\* C22: every row of the series is taken from the earliest contract in roll
\* order that has a bar on the row's date not later than its own roll date, and
\* no date has a second row.
C22_FirstWriterWins ==
    kpc = "done" =>
        /\ \A a \in DOMAIN result : result[a].contract = FirstWriter(result[a].date)
        /\ \A a, b \in DOMAIN result : result[a].date = result[b].date => a = b

\* a date on which two contracts offer a bar, the series carrying the bar of the
\* earlier one, beside a row of the later contract on another date
C22_Witness ==
    /\ kpc = "done"
    /\ \E r1, r2 \in df, a, b \in DOMAIN result :
          /\ r1.date = r2.date
          /\ Offered(r1)
          /\ Offered(r2)
          /\ PosOf(r1.contract_code) < PosOf(r2.contract_code)
          /\ result[a].date = r1.date
          /\ result[a].contract = r1.contract_code
          /\ result[b].contract = r2.contract_code

\* iteration k adjusted a contract that has a date in common with the series
RollWithOverlap(k) ==
    /\ segment[k].adjusting
    /\ ~segment[k].skipped
    /\ segment[k].overlap # NoDate
\* (adjusted close of the series on the overlap date of iteration k) - (raw
\* close of the contract on that date)
OverlapDifference(k) ==
    RSub(PrevPrice(segment[k].overlap),
         RInt(RawClose(segment[k].contract, segment[k].overlap)))
\* the rows of iteration k carry the raw prices plus the constant x
ShiftedBy(k, x) ==
    \A row \in Tagged(continuous_df, segment[k].contract) :
        LET raw == RowAt(ContractRows(segment[k].contract), row.date)
        IN  /\ row.adj_open = RAdd(RInt(raw.open), x)
            /\ row.adj_high = RAdd(RInt(raw.high), x)
            /\ row.adj_low = RAdd(RInt(raw.low), x)
            /\ row.adj_close = RAdd(RInt(raw.close), x)

\* C23: under difference every bar of a segment after the first is the raw
\* open/high/low/close plus one constant, (adjusted close of the series on the
\* overlap date) - (raw close of the contract on the overlap date), the overlap
\* date being the earliest date of the contract's bars already in the series; so
\* the contract's adjusted close on the overlap date is the series' close there.
C23_DifferenceConstant ==
    (adjust_method = "difference" /\ kpc \in {"loop", "done"}) =>
        \A k \in DOMAIN segment :
            RollWithOverlap(k) =>
                /\ segment[k].overlap
                     = Min({d \in DatesOf(ContractRows(segment[k].contract)) :
                              \E e \in 1..(k - 1) :
                                  \E row \in Tagged(continuous_df, segment[e].contract) :
                                      row.date = d})
                /\ segment[k].add = OverlapDifference(k)
                /\ ShiftedBy(k, OverlapDifference(k))
                /\ RAdd(RInt(RawClose(segment[k].contract, segment[k].overlap)),
                        segment[k].add) = PrevPrice(segment[k].overlap)

\* a difference roll with a constant other than zero whose segment has rows
C23_Witness ==
    /\ adjust_method = "difference"
    /\ kpc = "done"
    /\ \E k \in DOMAIN segment :
          /\ RollWithOverlap(k)
          /\ segment[k].add # RInt(0)
          /\ Cardinality(Tagged(continuous_df, segment[k].contract)) >= 2

\* iteration k adjusted a contract that has a bar on the roll date of the
\* contract before it, a date the series has a row for
RollWithBarOnRollDate(k) ==
    /\ k > 1
    /\ segment[k].adjusting
    /\ ~segment[k].skipped
    /\ rollover[k - 1] # NoDate
    /\ rollover[k - 1] \in DatesOf(ContractRows(segment[k].contract))
    /\ rollover[k - 1] \in DatesOf(Range(continuous_df))

\* C24: under difference, backward and forward, whenever the incoming contract
\* has a bar on the outgoing contract's roll date, its adjusted close on that
\* date equals the close the series carries on that date.
C24_NoJumpAtRoll ==
    (adjust_method \in {"difference", "backward", "forward"} /\ kpc \in {"loop", "done"}) =>
        \A k \in DOMAIN segment :
            RollWithBarOnRollDate(k) =>
                AdjustPrice([add |-> segment[k].add, mul |-> segment[k].mul],
                            RawClose(segment[k].contract, rollover[k - 1]))
                = PrevPrice(rollover[k - 1])

\* C29: contract tags are monotone along the series: of two rows the one dated
\* earlier is not tagged with a contract later in expiry order; the series
\* never returns to an earlier contract.
C29_TagsMonotone ==
    kpc = "done" =>
        \A a, b \in DOMAIN result :
            result[a].date < result[b].date =>
                PosOf(result[a].contract) <= PosOf(result[b].contract)

\* the second call of generate_continuous has ended
SecondCallEnded(v) == run = 2 /\ variant = v /\ kpc \in {"done", "error"}
\* the (date, contract) pairs of a series; its columns other than volume and
\* open interest
Layout(rows) == [k \in DOMAIN rows |-> <<rows[k].date, rows[k].contract>>]
PriceColumns(rows) ==
    [k \in DOMAIN rows |->
        [date |-> rows[k].date, contract |-> rows[k].contract, open |-> rows[k].open,
         high |-> rows[k].high, low |-> rows[k].low, close |-> rows[k].close]]

\* the last calendar day of the expiry month of a contract of 2021
LastDayOfMonth(c) == Ordinal(2021, extract_month(c), DaysInMonth(2021, extract_month(c)))

\* C26: under fixed every contract that has a successor is cut at (last calendar
\* day of its expiry month - rollover_days), and two inputs that differ only in
\* volume and open interest give series with the same date, contract, open,
\* high, low and close columns.
C26_FixedIgnoresLiquidity ==
    /\ (roll_strategy = "fixed" /\ kpc \in {"loop", "done"}) =>
           \A k \in DOMAIN rollover :
               k < Len(contracts) =>
                   /\ rollover[k] = LastDayOfMonth(contracts[k]) - rollover_days
                   /\ \A row \in Tagged(continuous_df, contracts[k]) :
                         row.date <= LastDayOfMonth(contracts[k]) - rollover_days
    /\ SecondCallEnded("liquidity") =>
           /\ kpc = first.kpc
           /\ PriceColumns(result) = PriceColumns(first.result)

\* a second call under fixed on a table with other volumes, returning a series
\* of two contracts with the prices and another volume column than the first
C26_Witness ==
    /\ SecondCallEnded("liquidity")
    /\ roll_strategy = "fixed"
    /\ kpc = "done"
    /\ \E a, b \in DOMAIN result : result[a].contract # result[b].contract
    /\ \E a \in DOMAIN result : result[a].volume # first.result[a].volume
    /\ \E k \in DOMAIN rollover :
          /\ k < Len(contracts)
          /\ \E r \in ContractRows(contracts[k]) : r.date > rollover[k]

\* C28: the layout of the series depends on the roll strategy only: a call that
\* differs in adjust_method only returns a series with the same sequence of
\* (date, contract) pairs.
C28_LayoutIgnoresMethod ==
    SecondCallEnded("method") =>
        /\ kpc = first.kpc
        /\ Layout(result) = Layout(first.result)

\* the six-digit keys YYYYMM of the years and the month a symbol of Tokens names
CanonicalKeys(c) ==
    LET t == CHOOSE x \in Tokens : x.symbol = c
    IN  {IntText(y) \o Pad2(t.month) : y \in t.years}
\* position of a contract in the order of first appearance
EncounterPos(c) == CHOOSE k \in DOMAIN order : order[k] = c

\* C25: for a symbol of letters followed by a token of 3, 4 or 6 digits the sort
\* key is the canonical six-digit YYYYMM (X2109 and X202109 both give 202109),
\* and the contract list is in ascending order of these keys, contracts with
\* equal keys staying in encounter order.
C25_CanonicalExpiryKey ==
    kpc = "loop" =>
        /\ \A c \in Range(contracts) : extract_date(c) \in CanonicalKeys(c)
        /\ \A a, b \in DOMAIN contracts :
              a < b =>
                 /\ ~StrLess(extract_date(contracts[b]), extract_date(contracts[a]))
                 /\ extract_date(contracts[a]) = extract_date(contracts[b])
                      => EncounterPos(contracts[a]) < EncounterPos(contracts[b])

\* the second run of main has ended
SecondRunEnded(v) == run = 2 /\ variant = v /\ kpc \in {"reported", "error"}

C15_MissingColumnsAbort ==
    (/\ kpc \in {"returned", "reported"}
     /\ df # {}
     /\ missing_cols(df_columns) # {})
    => /\ ~saved
       /\ returned # "series"
       /\ report # "success"

\* C16: with contract_months every row of the series is tagged with a contract
\* whose month is in the set, and a run on the input without the excluded
\* contracts gives the same series and the same file.
C16_ExcludedContractsIgnored ==
    /\ (returned = "series" /\ contract_months # {}) =>
           \A a \in DOMAIN result : extract_month(result[a].contract) \in contract_months
    /\ SecondRunEnded("reduced") =>
           /\ result = first.result
           /\ saved = first.saved

\* a second run on an input that lost the rows of an excluded contract, with a
\* series of the two contracts around it
C16_Witness ==
    /\ SecondRunEnded("reduced")
    /\ Len(day_files.rows) < first.rows
    /\ returned = "series"
    /\ first.returned = "series"
    /\ \E a, b \in DOMAIN result : result[a].contract # result[b].contract

\* the contracts of the table the regular expression does not match
Unparsed == {c \in TableContracts : ~ContractMatch(c).found}
\* the dates of the series rows tagged c, and of those tagged otherwise
DatesTagged(c) == {result[a].date : a \in {x \in DOMAIN result : result[x].contract = c}}
DatesTaggedOther(c) == {result[a].date : a \in {x \in DOMAIN result : result[x].contract # c}}

----------------------------------------------------------------------------
(* The matching scripts: values and inputs *)

\* a float column value: NaN, or a number
NaN == [isnan |-> TRUE, v |-> 0]
Num(x) == [isnan |-> FALSE, v |-> x]
NSub(a, b) == IF a.isnan \/ b.isnan THEN NaN ELSE Num(a.v - b.v)
NMul(a, q) == IF a.isnan THEN NaN ELSE Num(a.v * q)

\* a record with the columns of ext added
Extend(r, ext) ==
    [f \in DOMAIN r \cup DOMAIN ext |-> IF f \in DOMAIN ext THEN ext[f] ELSE r[f]]

\* str.upper() and str.lower()
UpperCh(ch) == CASE ch = "x" -> "X" [] ch = "y" -> "Y" [] OTHER -> ch
Upper(str) == [k \in DOMAIN str |-> UpperCh(str[k])]
Lower(str) ==
    CASE str \in {"long", "Long", "LONG"} -> "long"
      [] str \in {"short", "Short", "SHORT"} -> "short"
      [] OTHER -> str

\* extract_product: the upper-cased leading letters of the contract, None (<<>>)
\* when it does not start with a letter
extract_product(contract) == Upper(SubSeq(contract, 1, RunLen(contract, 1, Letters)))

\* the day numbered k of the majors table: 2021-01-04 is day 1
MDate(k) == Ordinal(2021, 1, 3) + k

\* the rows of product X and of product y in all_majors.csv
XRow(k) ==
    [date |-> MDate(k), contract |-> IF k <= 6 THEN SymbolOf(1) ELSE SymbolOf(2),
     close |-> 1000 + 7 * (k - 1), settlement |-> 1000 + 10 * (k - 1)]
YRow(k) ==
    [date |-> MDate(k), contract |-> <<"y", "2", "1", "0", "1">>,
     close |-> 2000 + k, settlement |-> 2000 + 2 * k]

\* a second row of product X on day k, of the contract x2103
SecondRow(k) ==
    [date |-> MDate(k), contract |-> <<"x", "2", "1", "0", "3">>,
     close |-> 1250 + k, settlement |-> 1300 + k]

\* the day on which product X has no row (0: none), and the day on which
\* product y has its row (0: none)
GapChoices == {0, 2, 6}
YChoices == {0, 2, 6}
\* the day on which the row of product X has a close of zero (0: none), and the
\* day on which product X has a second row (0: none)
ZeroCloseChoices == {0, 1}
SecondRowChoices == {0, 2, 12}

\* all_majors.csv: the rows of X in date order, then the second row of X, then
\* the row of y
Majors(g, h, z, u) ==
    SelectSeq([k \in 1..MaxDay |-> IF k = z THEN [XRow(k) EXCEPT !.close = 0] ELSE XRow(k)],
              LAMBDA r : r.date # MDate(g))
    \o (IF u = 0 THEN <<>> ELSE <<SecondRow(u)>>)
    \o (IF h = 0 THEN <<>> ELSE <<YRow(h)>>)

SignalRows ==
    [date : {MDate(k) : k \in 1..MaxSignalDay},
     product : {<<"x">>, <<"Y">>},
     position : {"long", "short"},
     amount : {TradeAmount}]

----------------------------------------------------------------------------
(* The matching scripts: the steps *)

\* lines 14-15: the product columns
WithProduct(majors) ==
    [k \in DOMAIN majors |-> Extend(majors[k], [product |-> extract_product(majors[k].contract)])]
UpperProduct(signals) ==
    [k \in DOMAIN signals |-> Extend(signals[k], [product |-> Upper(signals[k].product)])]

\* the rows a left merge makes of one signal: one per matching majors row, or
\* one with missing values
OpenRows(sig, majors) ==
    LET m == SelectSeq(majors, LAMBDA r : r.date = sig.date /\ r.product = sig.product)
    IN  IF Len(m) = 0
        THEN <<Extend(sig, [open_contract |-> NoContract, open_price |-> NaN,
                            open_settlement |-> NaN])>>
        ELSE [k \in 1..Len(m) |->
                Extend(sig, [open_contract |-> m[k].contract, open_price |-> Num(m[k].close),
                             open_settlement |-> Num(m[k].settlement)])]

\* pd.merge(signals_df, main_contracts_df[...], on=['date', 'product'], how='left')
RECURSIVE MergeOpen(_, _)
MergeOpen(signals, majors) ==
    IF Len(signals) = 0 THEN <<>>
    ELSE OpenRows(Head(signals), majors) \o MergeOpen(Tail(signals), majors)

\* astype(int) raises on NaN and on the inf of a division by zero
QuantityRaises(row) == row.open_price.isnan \/ row.open_price.v = 0

\* (amount / open_price).astype(int): truncation toward zero
TruncDivUp(a, b) == (a + b - 1) \div b
TruncDiv(a, b) ==
    IF (a < 0) = (b < 0) THEN Abs(a) \div Abs(b) ELSE -(Abs(a) \div Abs(b))

\* np.floor(amount / open_price).astype(int)
FloorDiv(a, b) == IF b > 0 THEN a \div b ELSE (-a) \div (-b)

\* line 33: the trading-day calendar
TradingDays(majors) == SetToSeq({majors[k].date : k \in DOMAIN majors})

\* get_close_date
GetCloseDateClamped(td, open_date) ==
    LET idx == {k \in DOMAIN td : td[k] = open_date}
    IN  IF idx # {}
        THEN td[Min({Min(idx) + HoldSessions, Len(td)})]
        ELSE NoDate
GetCloseDateEarly(td, open_date) ==
    LET idx == {k \in DOMAIN td : td[k] = open_date}
    IN  IF idx # {} /\ (Min(idx) - 1) + (HoldSessions - 1) < Len(td)
        THEN td[Min(idx) + (HoldSessions - 1)]
        ELSE NoDate
GetCloseDate(td, open_date) ==
    LET idx == {k \in DOMAIN td : td[k] = open_date}
    IN  IF idx # {} /\ (Min(idx) - 1) + HoldSessions < Len(td)
        THEN td[Min(idx) + HoldSessions]
        ELSE NoDate

\* the rows a left merge on (close_date, product) makes of one row; col names
\* the majors column taken, as names the new column
CloseRows(row, majors, col, as) ==
    LET m == SelectSeq(majors, LAMBDA r : r.date = row.close_date /\ r.product = row.product)
    IN  IF Len(m) = 0
        THEN <<Extend(row, [c \in {as} |-> NaN])>>
        ELSE [k \in 1..Len(m) |-> Extend(row, [c \in {as} |-> Num(m[k][col])])]

RECURSIVE MergeClose(_, _, _, _)
MergeClose(rows, majors, col, as) ==
    IF Len(rows) = 0 THEN <<>>
    ELSE CloseRows(Head(rows), majors, col, as) \o MergeClose(Tail(rows), majors, col, as)

\* np.where(position.str.lower() == 'long', mark - open_price, open_price - mark)
ProfitPerUnit(position, mark, open_price) ==
    IF Lower(position) = "long" THEN NSub(mark, open_price) ELSE NSub(open_price, mark)

\* lines 64-66: the trading days of the holding period
HoldPeriodExclusive(td, row) ==
    SelectSeq(td, LAMBDA d : d >= row.date /\ d < row.close_date)
HoldPeriod(td, row) ==
    SelectSeq(td, LAMBDA d : d >= row.date /\ d <= row.close_date)

\* lines 69-72: the settlements of the product on a day
DailySettlement(majors, day, product) ==
    LET m == SelectSeq(majors, LAMBDA r : r.date = day /\ r.product = product)
    IN  [k \in 1..Len(m) |-> m[k].settlement]

\* lines 80-83
DailyPnlUnsigned(position, settlement, open_price, quantity) ==
    (settlement - open_price) * quantity
DailyPnl(position, settlement, open_price, quantity) ==
    IF Lower(position) = "long"
    THEN (settlement - open_price) * quantity
    ELSE (open_price - settlement) * quantity

\* lines 68-75: the days of the holding period with a settlement of the product
LedgerDaysUntilGap(majors, td, row) ==
    LET hp == HoldPeriod(td, row)
        gaps == {k \in DOMAIN hp : Len(DailySettlement(majors, hp[k], row.product)) = 0}
    IN  IF gaps = {} THEN hp ELSE SubSeq(hp, 1, Min(gaps) - 1)
LedgerDays(majors, td, row) ==
    SelectSeq(HoldPeriod(td, row),
              LAMBDA d : Len(DailySettlement(majors, d, row.product)) > 0)

\* the records the loop body appends for one row of open_df
LedgerRecords(majors, td, row) ==
    LET days == LedgerDays(majors, td, row)
    IN  [k \in 1..Len(days) |->
            LET ds == DailySettlement(majors, days[k], row.product)[1]
            IN  [open_date |-> row.date, date |-> days[k], product |-> row.product,
                 position |-> row.position, open_contract |-> row.open_contract,
                 open_price |-> row.open_price, open_quantity |-> row.open_quantity,
                 daily_settlement |-> ds,
                 daily_pnl |-> DailyPnl(row.position, ds, row.open_price.v, row.open_quantity)]]

MInit ==
    \E g \in GapChoices : \E h \in YChoices :
    \E z \in ZeroCloseChoices : \E u \in SecondRowChoices :
    \E n \in 1..MaxSignals : \E sigs \in [1..n -> SignalRows] :
        /\ script \in {"match_signals", "match_major_with_signal"}
        /\ signals_df = sigs
        /\ main_contracts_df = Majors(g, h, z, u)
        /\ open_df = <<>>
        /\ trading_days = <<>>
        /\ daily_pnl_records = <<>>
        /\ record_row = <<>>
        /\ j = 0
        /\ mpc = "start"
        /\ out_matched = <<>>
        /\ out_daily = <<>>
        /\ KIdle
        /\ SIdle

\* match_signals lines 14-30: product columns, the open merge, the quantity
SigOpen ==
    /\ script = "match_signals"
    /\ mpc = "start"
    /\ main_contracts_df' = WithProduct(main_contracts_df)
    /\ signals_df' = UpperProduct(signals_df)
    /\ LET merged == MergeOpen(signals_df', main_contracts_df')
       IN  IF \E k \in DOMAIN merged : QuantityRaises(merged[k])
           THEN /\ open_df' = merged
                /\ mpc' = "raised"
           ELSE /\ open_df' = [k \in DOMAIN merged |->
                     Extend(merged[k], [open_quantity |->
                         TruncDiv(merged[k].amount, merged[k].open_price.v)])]
                /\ mpc' = "opened"
    /\ UNCHANGED <<script, trading_days, daily_pnl_records, record_row, j,
                   out_matched, out_daily>>
    /\ UNCHANGED <<kvars, svars>>

\* match_signals lines 33-47: the calendar, close_date, the settlement merge
SigClose ==
    /\ script = "match_signals"
    /\ mpc = "opened"
    /\ trading_days' = TradingDays(main_contracts_df)
    /\ open_df' =
         MergeClose([k \in DOMAIN open_df |->
                        Extend(open_df[k],
                               [close_date |-> GetCloseDate(trading_days', open_df[k].date)])],
                    main_contracts_df, "settlement", "close_settlement")
    /\ mpc' = "closed"
    /\ UNCHANGED <<script, signals_df, main_contracts_df, daily_pnl_records, record_row, j,
                   out_matched, out_daily>>
    /\ UNCHANGED <<kvars, svars>>

\* match_signals lines 50-55: profit_per_unit and total_profit
SigProfit ==
    /\ script = "match_signals"
    /\ mpc = "closed"
    /\ open_df' = [k \in DOMAIN open_df |->
         LET ppu == ProfitPerUnit(open_df[k].position, open_df[k].close_settlement,
                                  open_df[k].open_price)
         IN  Extend(open_df[k], [profit_per_unit |-> ppu,
                                 total_profit |-> NMul(ppu, open_df[k].open_quantity)])]
    /\ j' = 1
    /\ mpc' = "ledger"
    /\ UNCHANGED <<script, signals_df, main_contracts_df, trading_days, daily_pnl_records,
                   record_row, out_matched, out_daily>>
    /\ UNCHANGED <<kvars, svars>>

\* match_signals lines 60-95: the loop body for one row of open_df
SigLedger ==
    /\ script = "match_signals"
    /\ mpc = "ledger"
    /\ j <= Len(open_df)
    /\ LET recs == IF open_df[j].close_date = NoDate THEN <<>>
                   ELSE LedgerRecords(main_contracts_df, trading_days, open_df[j])
       IN  /\ daily_pnl_records' = daily_pnl_records \o recs
           /\ record_row' = record_row \o [k \in DOMAIN recs |-> j]
    /\ j' = j + 1
    /\ UNCHANGED <<script, signals_df, main_contracts_df, open_df, trading_days, mpc,
                   out_matched, out_daily>>
    /\ UNCHANGED <<kvars, svars>>

\* match_signals lines 97-101: the two files are written
SigSave ==
    /\ script = "match_signals"
    /\ mpc = "ledger"
    /\ j > Len(open_df)
    /\ out_matched' = open_df
    /\ out_daily' = daily_pnl_records
    /\ mpc' = "done"
    /\ UNCHANGED <<script, signals_df, main_contracts_df, open_df, trading_days,
                   daily_pnl_records, record_row, j>>
    /\ UNCHANGED <<kvars, svars>>

\* the columns of the open merge of match_major_with_signal
WithoutSettlement(row) == [f \in DOMAIN row \ {"open_settlement"} |-> row[f]]

\* match_major_with_signal lines 14-26: product columns, the open merge, the quantity
MajOpen ==
    /\ script = "match_major_with_signal"
    /\ mpc = "start"
    /\ main_contracts_df' = WithProduct(main_contracts_df)
    /\ signals_df' = UpperProduct(signals_df)
    /\ LET merged == LET m == MergeOpen(signals_df', main_contracts_df')
                     IN  [k \in DOMAIN m |-> WithoutSettlement(m[k])]
       IN  IF \E k \in DOMAIN merged : QuantityRaises(merged[k])
           THEN /\ open_df' = merged
                /\ mpc' = "raised"
           ELSE /\ open_df' = [k \in DOMAIN merged |->
                     Extend(merged[k], [open_quantity |->
                         FloorDiv(merged[k].amount, merged[k].open_price.v)])]
                /\ mpc' = "opened"
    /\ UNCHANGED <<script, trading_days, daily_pnl_records, record_row, j,
                   out_matched, out_daily>>
    /\ UNCHANGED <<kvars, svars>>

\* match_major_with_signal line 29
CloseDateByDays(open_date) == open_date + HoldDays

\* match_major_with_signal lines 29-38: close_date and the close price merge
MajClose ==
    /\ script = "match_major_with_signal"
    /\ mpc = "opened"
    /\ open_df' =
         MergeClose([k \in DOMAIN open_df |->
                        Extend(open_df[k], [close_date |-> CloseDateByDays(open_df[k].date)])],
                    main_contracts_df, "close", "close_price")
    /\ mpc' = "closed"
    /\ UNCHANGED <<script, signals_df, main_contracts_df, trading_days, daily_pnl_records,
                   record_row, j, out_matched, out_daily>>
    /\ UNCHANGED <<kvars, svars>>

\* match_major_with_signal lines 41-60: the profits, and the file is written
MajSave ==
    /\ script = "match_major_with_signal"
    /\ mpc = "closed"
    /\ open_df' = [k \in DOMAIN open_df |->
         LET ppu == ProfitPerUnit(open_df[k].position, open_df[k].close_price,
                                  open_df[k].open_price)
         IN  Extend(open_df[k], [profit_per_unit |-> ppu,
                                 total_profit |-> NMul(ppu, open_df[k].open_quantity)])]
    /\ out_matched' = open_df'
    /\ mpc' = "done"
    /\ UNCHANGED <<script, signals_df, main_contracts_df, trading_days, daily_pnl_records,
                   record_row, j, out_daily>>
    /\ UNCHANGED <<kvars, svars>>

MNext == SigOpen \/ SigClose \/ SigProfit \/ SigLedger \/ SigSave
         \/ MajOpen \/ MajClose \/ MajSave

SpecMatch == MInit /\ [][MNext]_vars

----------------------------------------------------------------------------
(* select_major.py: identify_major_contracts                               *)

SmDates == 3
SmMaxVol == 2
SmContracts == <<"m2101", "m2102", "m2103">>

\* the rows of one date, in the order the sorted frame holds them: the sort
\* is by date alone, so the order within a date is one the input decides
RECURSIVE SmRowsOf(_, _, _, _)
SmRowsOf(vol, d, ord, k) ==
    IF k > Len(ord) THEN <<>>
    ELSE (IF vol[d][ord[k]] > 0
          THEN <<[date |-> d, contract |-> SmContracts[ord[k]], volume |-> vol[d][ord[k]]]>>
          ELSE <<>>) \o SmRowsOf(vol, d, ord, k + 1)

\* df = df.sort_values('date')
RECURSIVE SmSorted(_, _, _)
SmSorted(vol, ord, d) ==
    IF d > SmDates THEN <<>>
    ELSE SmRowsOf(vol, d, ord, 1) \o SmSorted(vol, ord, d + 1)

SmOrders == {<<1, 2, 3>>, <<3, 2, 1>>, <<2, 1, 3>>}

\* dates = df['date'].unique()
RECURSIVE UniqueDates(_, _)
UniqueDates(table, k) ==
    IF k > Len(table) THEN <<>>
    ELSE IF k > 1 /\ table[k - 1].date = table[k].date THEN UniqueDates(table, k + 1)
    ELSE <<table[k].date>> \o UniqueDates(table, k + 1)

sm_dates == UniqueDates(sm_df, 1)

\* date_df = df[df['date'] == date]
date_df(d) == SelectSeq(sm_df, LAMBDA r : r.date = d)

\* date_df.loc[date_df['volume'].idxmax()]: the first row of the largest volume
IdxMax(rows) ==
    LET m == Max({rows[k].volume : k \in DOMAIN rows})
    IN  rows[Min({k \in DOMAIN rows : rows[k].volume = m})]

\* row['volume'] > major_df.iloc[0]['volume']
ExceedsOrEquals(v, w) == v >= w
Exceeds(v, w) == v > w

\* the contract the loop over date_df.iterrows() leaves in current_major_contract
AfterRows(rows, cur) ==
    LET major_df == SelectSeq(rows, LAMBDA r : r.contract = cur)
        higher == {k \in DOMAIN rows : /\ rows[k].contract # cur
                                       /\ Exceeds(rows[k].volume, major_df[1].volume)}
    IN  IF higher = {} THEN cur ELSE rows[Min(higher)].contract

\* the row appended for one date
MajorRow(rows, pos, cur) ==
    IF pos = 0 THEN IdxMax(rows)
    ELSE IF SelectSeq(rows, LAMBDA r : r.contract = cur) # <<>>
         THEN SelectSeq(rows, LAMBDA r : r.contract = AfterRows(rows, cur))[1]
         ELSE IdxMax(rows)

SInit ==
    /\ \E vol \in [1..SmDates -> [1..Len(SmContracts) -> 0..SmMaxVol]], ord \in SmOrders :
            sm_df = SmSorted(vol, ord, 1)
    /\ sm_i = 0
    /\ current_major_contract = "None"
    /\ major_contracts = <<>>
    /\ spc = "loop"
    /\ KIdle
    /\ MIdle

\* one iteration of the loop over the dates
SelectDay ==
    /\ spc = "loop"
    /\ sm_i < Len(sm_dates)
    /\ LET major_row == MajorRow(date_df(sm_dates[sm_i + 1]), sm_i, current_major_contract)
       IN  /\ current_major_contract' = major_row.contract
           /\ major_contracts' = Append(major_contracts, major_row)
    /\ sm_i' = sm_i + 1
    /\ UNCHANGED <<sm_df, spc>>
    /\ UNCHANGED <<kvars, mvars>>

\* the rows are written to <exchange>_<product>_major.csv
SelectSave ==
    /\ spc = "loop"
    /\ sm_i = Len(sm_dates)
    /\ major_contracts # <<>>
    /\ spc' = "saved"
    /\ UNCHANGED <<sm_df, sm_i, current_major_contract, major_contracts>>
    /\ UNCHANGED <<kvars, mvars>>

\* no rows: the empty frame has no 'contract' column, the KeyError is caught
SelectFail ==
    /\ spc = "loop"
    /\ sm_i = Len(sm_dates)
    /\ major_contracts = <<>>
    /\ spc' = "failed"
    /\ UNCHANGED <<sm_df, sm_i, current_major_contract, major_contracts>>
    /\ UNCHANGED <<kvars, mvars>>

SNext == SelectDay \/ SelectSave \/ SelectFail

SpecMajor == SInit /\ [][SNext]_vars

----------------------------------------------------------------------------
(* Properties of identify_major_contracts                                  *)

\* the volumes of a contract's rows among the rows of one date
VolumesOf(rows, c) == {rows[k].volume : k \in {n \in DOMAIN rows : rows[n].contract = c}}
DayVolumes(rows) == {rows[k].volume : k \in DOMAIN rows}

\* C27: walking the dates in ascending order, the first date's major is that
\* date's highest-volume contract; on a later date the major is kept when it
\* has a row and no other contract has a strictly greater volume, it changes
\* only to a contract whose volume that day is strictly greater than the
\* current major's, and when the current major has no row that day the major
\* becomes the day's highest-volume contract.
C27_MajorSelection ==
    \A k \in DOMAIN major_contracts :
        LET rows == date_df(sm_dates[k])
            m == major_contracts[k]
        IN  /\ m.date = sm_dates[k]
            /\ m \in Range(rows)
            /\ k > 1 => sm_dates[k - 1] < sm_dates[k]
            /\ IF k = 1 THEN m.volume = Max(DayVolumes(rows))
               ELSE LET prev == major_contracts[k - 1].contract
                    IN  IF VolumesOf(rows, prev) = {}
                        THEN m.volume = Max(DayVolumes(rows))
                        ELSE /\ Max(DayVolumes(rows)) \in VolumesOf(rows, prev)
                                    => m.contract = prev
                             /\ m.contract # prev
                                    => \A pv \in VolumesOf(rows, prev) : m.volume > pv

\* a saved run over three dates: the major changes on the second date to a
\* contract of strictly greater volume while the old major still trades, and
\* is kept on the third date against another contract of equal volume
C27_Witness ==
    /\ spc = "saved"
    /\ Len(major_contracts) = 3
    /\ major_contracts[2].contract # major_contracts[1].contract
    /\ VolumesOf(date_df(sm_dates[2]), major_contracts[1].contract) # {}
    /\ major_contracts[3].contract = major_contracts[2].contract
    /\ \E k \in DOMAIN date_df(sm_dates[3]) :
            /\ date_df(sm_dates[3])[k].contract # major_contracts[3].contract
            /\ date_df(sm_dates[3])[k].volume = major_contracts[3].volume

----------------------------------------------------------------------------
(* Properties of the matching scripts *)

\* the trading-day calendar: the distinct dates of the majors table
Calendar == {main_contracts_df[k].date : k \in DOMAIN main_contracts_df}
\* the number of sessions of the calendar after date d
SessionsAfter(d) == Cardinality({x \in Calendar : x > d})
LastTradingDay == Max(Calendar)
\* the majors rows of a product (case-normalised) on a date
MajorsOn(d, product) ==
    {k \in DOMAIN main_contracts_df :
        /\ main_contracts_df[k].date = d
        /\ extract_product(main_contracts_df[k].contract) = Upper(product)}
\* the ledger records made for row k of open_df
RecordsOf(k) == {r \in DOMAIN daily_pnl_records : record_row[r] = k}
\* the frame holds close_date; it holds total_profit
HasCloseDate == mpc \in {"closed", "ledger", "done"}
HasProfit == (script = "match_signals" /\ mpc \in {"ledger", "done"})
             \/ (script = "match_major_with_signal" /\ mpc = "done")

C5_UnmatchedSignalDropped ==
    (\E s \in DOMAIN signals_df :
        MajorsOn(signals_df[s].date, signals_df[s].product) = {})
    => /\ mpc # "raised"
       /\ mpc = "done" =>
            \A s \in DOMAIN signals_df :
                (\E k \in DOMAIN out_matched :
                    /\ out_matched[k].date = signals_df[s].date
                    /\ out_matched[k].product = signals_df[s].product)
                <=> MajorsOn(signals_df[s].date, signals_df[s].product) # {}

\* close_date lies exactly 10 sessions after the open date of row k
TenSessionsAfter(k) ==
    /\ open_df[k].close_date \in Calendar
    /\ Cardinality({d \in Calendar : open_df[k].date < d /\ d <= open_df[k].close_date})
         = HoldSessions

MarkOf(k) ==
    IF script = "match_signals" THEN open_df[k].close_settlement ELSE open_df[k].close_price
Sign(position) == IF position = "long" THEN 1 ELSE -1

\* C7: open_quantity = floor(amount / open_price) with open_price the close of
\* the majors row of the open date, and total_profit = sign(direction) *
\* (mark price on close_date - open_price) * open_quantity.
C7_QuantityAndTotalProfit ==
    HasProfit =>
        \A k \in DOMAIN open_df :
            LET row == open_df[k]
                p == row.open_price.v
            IN  /\ ~row.open_price.isnan
                /\ \E m \in MajorsOn(row.date, row.product) : main_contracts_df[m].close = p
                /\ row.open_quantity * p <= row.amount
                /\ row.amount < (row.open_quantity + 1) * p
                /\ ~MarkOf(k).isnan =>
                     /\ \E m \in MajorsOn(row.close_date, row.product) :
                           MarkOf(k).v = IF script = "match_signals"
                                         THEN main_contracts_df[m].settlement
                                         ELSE main_contracts_df[m].close
                     /\ row.total_profit =
                           Num(Sign(row.position) * (MarkOf(k).v - p) * row.open_quantity)

\* the scenario of the specification: amount 100000 at close 1000 gives quantity
\* 100, and a close-day settlement of 1100 gives a long position 10000
C7_Witness ==
    /\ script = "match_signals"
    /\ mpc = "done"
    /\ \E k \in DOMAIN open_df :
          /\ open_df[k].position = "long"
          /\ open_df[k].amount = 100000
          /\ open_df[k].open_price = Num(1000)
          /\ open_df[k].open_quantity = 100
          /\ open_df[k].close_settlement = Num(1100)
          /\ open_df[k].total_profit = Num(10000)
    /\ \E k \in DOMAIN open_df :
          open_df[k].amount % open_df[k].open_price.v # 0

\* C8: for every position with a resolved close_date the ledger holds exactly
\* one row for each trading day d with open_date <= d <= close_date on which the
\* majors table has a row of the product, and no other row.
C8_LedgerDays ==
    (script = "match_signals" /\ mpc = "done") =>
        \A k \in DOMAIN open_df :
            open_df[k].close_date # NoDate =>
                \A d \in Calendar \cup {daily_pnl_records[r].date : r \in RecordsOf(k)} :
                    Cardinality({r \in RecordsOf(k) : daily_pnl_records[r].date = d})
                    = IF /\ d \in Calendar
                         /\ open_df[k].date <= d
                         /\ d <= open_df[k].close_date
                         /\ MajorsOn(d, open_df[k].product) # {}
                      THEN 1 ELSE 0

\* a position whose holding period holds a trading day without a row of its
\* product, with ledger rows on its open day and on its close day
C8_Witness ==
    /\ script = "match_signals"
    /\ mpc = "done"
    /\ \E k \in DOMAIN open_df :
          /\ open_df[k].close_date # NoDate
          /\ \E d \in Calendar :
                /\ open_df[k].date < d
                /\ d < open_df[k].close_date
                /\ MajorsOn(d, open_df[k].product) = {}
          /\ \E r \in RecordsOf(k) : daily_pnl_records[r].date = open_df[k].date
          /\ \E r \in RecordsOf(k) : daily_pnl_records[r].date = open_df[k].close_date

\* the settlement of the first majors row of a product on a date
FirstSettlement(d, product) == main_contracts_df[Min(MajorsOn(d, product))].settlement

\* C9: every ledger row's daily_pnl is (settlement of the day - open_price) *
\* open_quantity for a long position and its negation for a short one; two
\* positions that differ only in direction get negated values on every day.
C9_DailyPnlSigned ==
    (script = "match_signals" /\ mpc \in {"ledger", "done"}) =>
        /\ \A r \in DOMAIN daily_pnl_records :
              LET row == open_df[record_row[r]]
                  rec == daily_pnl_records[r]
                  unsigned == (FirstSettlement(rec.date, row.product) - row.open_price.v)
                                * row.open_quantity
              IN  rec.daily_pnl = IF row.position = "long" THEN unsigned ELSE -unsigned
        /\ mpc = "done" =>
              \A a, b \in DOMAIN open_df :
                  (/\ open_df[a].date = open_df[b].date
                   /\ open_df[a].product = open_df[b].product
                   /\ open_df[a].amount = open_df[b].amount
                   /\ open_df[a].open_contract = open_df[b].open_contract
                   /\ open_df[a].position = "long"
                   /\ open_df[b].position = "short")
                  => /\ {daily_pnl_records[r].date : r \in RecordsOf(a)}
                          = {daily_pnl_records[r].date : r \in RecordsOf(b)}
                     /\ \A ra \in RecordsOf(a), rb \in RecordsOf(b) :
                           daily_pnl_records[ra].date = daily_pnl_records[rb].date
                           => daily_pnl_records[ra].daily_pnl = -daily_pnl_records[rb].daily_pnl

\* a long and a short position of the same day and product, with non-zero
\* ledger values
C9_Witness ==
    /\ script = "match_signals"
    /\ mpc = "done"
    /\ \E a, b \in DOMAIN open_df :
          /\ open_df[a].date = open_df[b].date
          /\ open_df[a].product = open_df[b].product
          /\ open_df[a].position = "long"
          /\ open_df[b].position = "short"
          /\ \E ra \in RecordsOf(a), rb \in RecordsOf(b) :
                /\ daily_pnl_records[ra].date = daily_pnl_records[rb].date
                /\ daily_pnl_records[ra].daily_pnl > 0
                /\ daily_pnl_records[rb].daily_pnl < 0

\* the matched open_price of signal s is zero or missing
BadOpenPrice(s) ==
    \/ MajorsOn(signals_df[s].date, signals_df[s].product) = {}
    \/ \E m \in MajorsOn(signals_df[s].date, signals_df[s].product) :
          main_contracts_df[m].close = 0

\* C18: a signal whose matched open_price is zero or missing is skipped: the
\* run does not fail on the division or the integer conversion, no position
\* row is written for the signal, and the other signals get their rows.
C18_BadOpenPriceSkipped ==
    /\ mpc # "raised"
    /\ mpc = "done" =>
          \A s \in DOMAIN signals_df :
              (\E k \in DOMAIN out_matched :
                  /\ out_matched[k].date = signals_df[s].date
                  /\ out_matched[k].product = signals_df[s].product)
              <=> ~BadOpenPrice(s)

\* the first majors row of a product on a date
FirstMajor(d, product) == main_contracts_df[Min(MajorsOn(d, product))]

\* C19: each signal yields at most one position: the frame holds at most one row
\* per signal row, and the first majors row matching the signal's date and
\* product supplies open_contract and open_price.
C19_OnePositionPerSignal ==
    mpc \in {"opened", "closed", "ledger", "done"} =>
        /\ Len(open_df) <= Len(signals_df)
        /\ \A k \in DOMAIN open_df :
              /\ open_df[k].open_contract = FirstMajor(open_df[k].date, open_df[k].product).contract
              /\ open_df[k].open_price = Num(FirstMajor(open_df[k].date, open_df[k].product).close)

\* the trading days of the holding period of row k
HoldingDays(k) ==
    {d \in Calendar : open_df[k].date <= d /\ d <= open_df[k].close_date}

\* C20: when the majors table has no row of a position's product on a trading
\* day of its holding period, the run ends with both files written, the ledger
\* has no row of the position for that day, and for each other day of the period
\* it has the one row with that day's settlement and the profit computed from it.
C20_MissingDaySkipped ==
    (script = "match_signals" /\ mpc = "done") =>
        \A k \in DOMAIN open_df :
            (/\ open_df[k].close_date # NoDate
             /\ \E d \in HoldingDays(k) : MajorsOn(d, open_df[k].product) = {})
            => /\ out_daily = daily_pnl_records
               /\ \A d \in HoldingDays(k) :
                     LET recs == {r \in RecordsOf(k) : daily_pnl_records[r].date = d}
                     IN  IF MajorsOn(d, open_df[k].product) = {}
                         THEN recs = {}
                         ELSE /\ Cardinality(recs) = 1
                              /\ \A r \in recs :
                                    /\ daily_pnl_records[r].open_date = open_df[k].date
                                    /\ daily_pnl_records[r].daily_settlement
                                         = FirstSettlement(d, open_df[k].product)
                                    /\ daily_pnl_records[r].daily_pnl
                                         = Sign(Lower(open_df[k].position))
                                           * (FirstSettlement(d, open_df[k].product)
                                              - open_df[k].open_price.v)
                                           * open_df[k].open_quantity

\* a finished run with a position whose product has no row on the second day of
\* its holding period, and ledger rows of the position on the days around it
C20_Witness ==
    /\ script = "match_signals"
    /\ mpc = "done"
    /\ \E k \in DOMAIN open_df :
          /\ open_df[k].close_date # NoDate
          /\ \E d \in HoldingDays(k) :
                /\ MajorsOn(d, open_df[k].product) = {}
                /\ \E r \in RecordsOf(k) : out_daily[r].date = d - 1
                /\ \E r \in RecordsOf(k) : out_daily[r].date = d + 1
          /\ Cardinality(RecordsOf(k)) = Cardinality(HoldingDays(k)) - 1

\* C30: in match_signals, for every position with a resolved close_date and a
\* majors row for its product on that date, the ledger row dated close_date
\* carries a daily_pnl equal to the position's total_profit in the
\* matched-signals output.
C30_CloseDayPnlIsTotalProfit ==
    (script = "match_signals" /\ mpc = "done") =>
        \A k \in DOMAIN out_matched :
            (/\ out_matched[k].close_date # NoDate
             /\ MajorsOn(out_matched[k].close_date, out_matched[k].product) # {})
            => /\ \E r \in RecordsOf(k) : out_daily[r].date = out_matched[k].close_date
               /\ \A r \in RecordsOf(k) :
                      out_daily[r].date = out_matched[k].close_date
                      => /\ ~out_matched[k].total_profit.isnan
                         /\ out_daily[r].daily_pnl = out_matched[k].total_profit.v

====
